---- MODULE Spec2Model ----
(***************************************************************************)
(* States of Matter: the molecular-dynamics engine.                        *)
(*                                                                         *)
(* Eight specifications share the variables of this module:                *)
(*   Spec      the owning model together with AbstractVerletAlgorithm      *)
(*             (position update, wall handling, pressure, explosion);      *)
(*   SpecMono  MonatomicAtomPositionUpdater.updateAtomPositions, called by *)
(*             the steps of the integrator and directly;                   *)
(*   SpecWater WaterVerletAlgorithm.updateForcesAndMotion, as the class    *)
(*             stands (the call throws) and with the two methods it calls  *)
(*             but does not have in place;                                 *)
(*   SpecIntegrators  the steps of Spec and the steps of SpecWater, each   *)
(*             on its own data set;                                        *)
(*   SpecPhase DiatomicPhaseStateChanger.setPhase and setPhaseSolid on     *)
(*             data sets of 1 .. MaxMolecules molecules;                   *)
(*   SpecPhaseAndSteps  setPhase and the steps of the integrator on a      *)
(*             solid of MaxMolecules molecules, whose container explodes;  *)
(*   SpecMonatomicVerlet  the steps of Spec on a monatomic data set        *)
(*             (rotational inertia 0);                                     *)
(*   SpecLid   the steps of Spec while the lid is driven to heights near   *)
(*             the top and near the bottom, with short and long steps.     *)
(*                                                                         *)
(* JavaScript numbers are modelled as extended rationals <<n, d>>:         *)
(* d > 0 is the rational n/d in lowest terms, <<1,0>> is Infinity,         *)
(* <<-1,0>> is -Infinity and <<0,0>> is NaN (also what `undefined` turns   *)
(* into inside an arithmetic expression).  Rounding of doubles is not      *)
(* modelled: arithmetic is exact.                                          *)
(***************************************************************************)
EXTENDS Integers, Sequences, FiniteSets, TLC

----------------------------------------------------------------------------
(* Extended rational arithmetic (IEEE-754 special values, exact otherwise) *)

RECURSIVE GCD(_, _)
GCD(a, b) == IF b = 0 THEN a ELSE GCD(b, a % b)

AbsInt(n) == IF n < 0 THEN -n ELSE n

SignInt(n) == IF n < 0 THEN -1 ELSE IF n > 0 THEN 1 ELSE 0

Norm(n, d) ==
  IF d = 0 THEN <<SignInt(n), 0>>
  ELSE IF n = 0 THEN <<0, 1>>
  ELSE LET g == GCD(AbsInt(n), AbsInt(d))
           s == IF d < 0 THEN -1 ELSE 1
       IN  <<s * (n \div g), s * (d \div g)>>

Rat(n, d) == Norm(n, d)

Num(n) == <<n, 1>>

NaN == <<0, 0>>

Zero == <<0, 1>>

IsNaN(a) == a = NaN

IsFinite(a) == a[2] > 0

Neg(a) == <<-a[1], a[2]>>

Add(a, b) ==
  IF a[2] = 0 /\ b[2] = 0
  THEN (IF a[1] = b[1] THEN a ELSE NaN)
  ELSE IF a[2] = 0 THEN a
  ELSE IF b[2] = 0 THEN b
  ELSE LET g == GCD(a[2], b[2])
       IN  Norm(a[1] * (b[2] \div g) + b[1] * (a[2] \div g), (a[2] \div g) * b[2])

Sub(a, b) == Add(a, Neg(b))

Mul(a, b) ==
  IF a[2] = 0 \/ b[2] = 0
  THEN Norm(SignInt(a[1]) * SignInt(b[1]), 0)
  ELSE LET g1 == GCD(AbsInt(a[1]), b[2])
           g2 == GCD(AbsInt(b[1]), a[2])
       IN  Norm((a[1] \div g1) * (b[1] \div g2), (a[2] \div g2) * (b[2] \div g1))

Inv(a) == IF a[1] < 0 THEN <<-a[2], -a[1]>> ELSE <<a[2], a[1]>>

Div(a, b) == Mul(a, Inv(b))

Lt(a, b) ==
  /\ ~IsNaN(a)
  /\ ~IsNaN(b)
  /\ IF a[2] = 0 \/ b[2] = 0
     THEN (IF a[2] = 0 /\ b[2] = 0 THEN a[1] < b[1]
           ELSE IF a[2] = 0 THEN a[1] < 0
           ELSE b[1] > 0)
     ELSE a[1] * b[2] < b[1] * a[2]

Gt(a, b) == Lt(b, a)

Le(a, b) == ~IsNaN(a) /\ ~IsNaN(b) /\ ~Lt(b, a)

Ge(a, b) == Le(b, a)

Abs(a) == <<AbsInt(a[1]), a[2]>>

Max(a, b) == IF IsNaN(a) \/ IsNaN(b) THEN NaN ELSE IF Lt(a, b) THEN b ELSE a

Min(a, b) == IF IsNaN(a) \/ IsNaN(b) THEN NaN ELSE IF Lt(b, a) THEN b ELSE a

Sq(a) == Mul(a, a)

Vec(x, y) == [x |-> x, y |-> y]

ZeroVec == Vec(Zero, Zero)

RECURSIVE SumOver(_, _, _)
SumOver(f, lo, hi) == IF lo > hi THEN Zero ELSE Add(f[lo], SumOver(f, lo + 1, hi))

----------------------------------------------------------------------------
(* Bounds of the model                                                     *)

\* molecules in the data set (indices 0 .. NumMolecules - 1)
NumMolecules == 2

\* operations (integrator steps and calls from the user interface) in one behaviour
MaxSteps == 4

\* molecules in the data sets handed to the phase state changer (1 .. MaxMolecules)
MaxMolecules == 7

\* operations of SpecPhase in one behaviour: calls of setPhase, and direct calls of
\* setPhaseSolid
MaxPhaseChanges == 2

\* calls of updateForcesAndMotion of the water integrator in one behaviour
MaxWaterSteps == 2

----------------------------------------------------------------------------
(* Program constants                                                       *)

PRESSURE_CALC_TIME_WINDOW == 12

EXPLOSION_PRESSURE == Rat(105, 100)

sideBounceInset == Num(1)

bottomBounceInset == Num(1)

topBounceInset == Num(1)

\* multiplier applied to the accumulated wall impulse (updateMoleculePositions)
PRESSURE_MULTIPLIER == 65

\* Mutant of LID_VELOCITY_FRACTION: the whole lid velocity is imparted.
LID_VELOCITY_FRACTION_whole == Num(1)

\* fraction of the lid velocity imparted to a particle bouncing off the lid
LID_VELOCITY_FRACTION == Rat(3, 10)

\* container geometry of the owning model, in particle diameters
normalizedContainerWidth == Num(10)

normalizedTotalContainerHeight == Num(8)

\* heights the lid can be driven to: setTargetContainerHeight clamps to [0, initial]
ContainerHeights == {Num(4), normalizedTotalContainerHeight}

\* time steps handed to the integrator
TimeSteps == {Num(3), Num(6)}

Molecules == 0 .. (NumMolecules - 1)

VARIABLES
  moleculeDataSet,             \* MoleculeForceAndMotionDataSet of the model
  pressure,                    \* pressureProperty of the integrator
  isExploded,                  \* isExplodedProperty of the model
  normalizedContainerHeight,   \* current height of the lid
  normalizedLidVelocityY,      \* velocity of the lid
  lidChangedParticleVelocity,  \* flag of the integrator, cleared by the client
  temperatureSetPoint,         \* temperatureSetPointProperty of the model
  temperature,                 \* temperature recorded by the integrator
  lastCall,                    \* the operation that produced this state, and what it did
  steps                        \* operations performed so far

vars == <<moleculeDataSet, pressure, isExploded, normalizedContainerHeight,
          normalizedLidVelocityY, lidChangedParticleVelocity, temperatureSetPoint,
          temperature, lastCall, steps>>

----------------------------------------------------------------------------
(* The atom position updaters                                              *)

\* StatesOfMatterConstants.CONTAINER_LEFT_WALL, CONTAINER_RIGHT_WALL,
\* CONTAINER_TOP_WALL and CONTAINER_BOTTOM_WALL: StatesOfMatterConstants defines
\* no property of these names, so each read gives undefined, which the
\* comparisons and Math.max take for NaN
CONTAINER_LEFT_WALL == NaN

CONTAINER_RIGHT_WALL == NaN

CONTAINER_TOP_WALL == NaN

CONTAINER_BOTTOM_WALL == NaN

\* the hysteresis added to topWall in checkInContainer
TOP_WALL_HYSTERESIS == 2

\* Util.clamp( value, min, max ): value < min gives min, value > max gives max,
\* anything else (a comparison with NaN is false) gives value
clamp(value, min, max) ==
  IF Lt(value, min) THEN min ELSE IF Gt(value, max) THEN max ELSE value

checkInContainer(position, leftWall, rightWall, topWall, bottomWall, currentStatus) ==
  IF currentStatus /\ Ge(position.y, Add(topWall, Num(TOP_WALL_HYSTERESIS)))
  THEN FALSE
  ELSE IF /\ ~currentStatus
          /\ Gt(position.x, leftWall)
          /\ Lt(position.x, rightWall)
          /\ Le(position.y, topWall)
          /\ Ge(position.y, bottomWall)
       THEN TRUE
       ELSE currentStatus

\* what the first branch of the loop body writes into atomPositions[ i ]
AtomPosition(position, offset) ==
  Vec(clamp(position.x, CONTAINER_LEFT_WALL, Sub(CONTAINER_RIGHT_WALL, offset)),
      Max(position.y, CONTAINER_BOTTOM_WALL))

\* Mutant of updateAtomPositions: what the first branch writes into the atom
\* position is written into the center of mass as well.
updateAtomPositions_writesCenters(ds, offset) ==
  LET status == [i \in Molecules |->
                   checkInContainer(ds.moleculeCenterOfMassPositions[i],
                                    CONTAINER_LEFT_WALL,
                                    Sub(CONTAINER_RIGHT_WALL, offset),
                                    Sub(CONTAINER_TOP_WALL, offset),
                                    CONTAINER_BOTTOM_WALL,
                                    ds.insideContainers[i])]
      atom == [i \in Molecules |->
                 IF status[i] THEN AtomPosition(ds.moleculeCenterOfMassPositions[i], offset)
                 ELSE ds.moleculeCenterOfMassPositions[i]]
  IN  [ds EXCEPT
         !.insideContainers = status,
         !.atomPositions = atom,
         !.moleculeCenterOfMassPositions = atom,
         !.sameObject = [i \in Molecules |-> TRUE]]

\* MonatomicAtomPositionUpdater.updateAtomPositions( moleculeDataSet, offset ).
\* sameObject[ i ] says that atomPositions[ i ] and
\* moleculeCenterOfMassPositions[ i ] are one Vector2 object, which is what the
\* assignment of the else branch makes them: a write to atomPositions[ i ].x or
\* .y is then a write to the center of mass as well.
updateAtomPositions(ds, offset) ==
  LET status == [i \in Molecules |->
                   checkInContainer(ds.moleculeCenterOfMassPositions[i],
                                    CONTAINER_LEFT_WALL,
                                    Sub(CONTAINER_RIGHT_WALL, offset),
                                    Sub(CONTAINER_TOP_WALL, offset),
                                    CONTAINER_BOTTOM_WALL,
                                    ds.insideContainers[i])]
      atom == [i \in Molecules |->
                 IF status[i] THEN AtomPosition(ds.moleculeCenterOfMassPositions[i], offset)
                 ELSE ds.moleculeCenterOfMassPositions[i]]
  IN  [ds EXCEPT
         !.insideContainers = status,
         !.atomPositions = atom,
         !.moleculeCenterOfMassPositions =
            [i \in Molecules |->
               IF status[i] /\ ds.sameObject[i] THEN atom[i]
               ELSE ds.moleculeCenterOfMassPositions[i]],
         !.sameObject = [i \in Molecules |-> ds.sameObject[i] \/ ~status[i]]]

\* DiatomicAtomPositionUpdater.updateAtomPositions( moleculeDataSet ): the atom
\* positions are a function of the centers of mass and the rotation angles; the
\* data set keeps the arguments the atoms were last computed from
DiatomicUpdateAtomPositions(ds) ==
  [ds EXCEPT !.atomPositions = [ centers |-> ds.moleculeCenterOfMassPositions,
                                 angles |-> ds.moleculeRotationAngles ]]

\* this.positionUpdater.updateAtomPositions( moleculeDataSet ): the updater of the
\* descendant class, called with one argument, so that the offset of the
\* monatomic updater is undefined
positionUpdater(ds) ==
  IF ds.atomsPerMolecule = 1
  THEN updateAtomPositions(ds, NaN)
  ELSE DiatomicUpdateAtomPositions(ds)

----------------------------------------------------------------------------
(* AbstractVerletAlgorithm                                                 *)

isNormalizedPositionInContainer(xPos, yPos) ==
  /\ Ge(xPos, Zero)
  /\ Le(xPos, normalizedContainerWidth)
  /\ Ge(yPos, Zero)
  /\ Le(yPos, normalizedTotalContainerHeight)

\* One iteration of the loop of updateMoleculePositions: molecule i of data set ds,
\* with containerExploded the value multipleParticleModel.getContainerExploded() gives.
\* The result holds the candidate position the iteration computes first, the new
\* position, velocity, angle and insideContainer flag of the molecule, what it adds
\* to accumulatedPressure, and whether the iteration set lidChangedParticleVelocity.
MoleculeStep(ds, i, timeStep, containerExploded) ==
  LET v == ds.moleculeVelocities[i]
      p == ds.moleculeCenterOfMassPositions[i]
      f == ds.moleculeForces[i]
      massInverse == Inv(ds.moleculeMass)
      inertiaInverse == Inv(ds.moleculeRotationalInertia)
      timeStepSqrHalf == Mul(Mul(timeStep, timeStep), Rat(1, 2))
      middleHeight == Div(normalizedContainerHeight, Num(2))
      minX == sideBounceInset
      minY == bottomBounceInset
      maxX == Sub(normalizedContainerWidth, sideBounceInset)
      maxY == Sub(normalizedContainerHeight, topBounceInset)
      xPos0 == Add(Add(p.x, Mul(timeStep, v.x)), Mul(Mul(timeStepSqrHalf, f.x), massInverse))
      yPos0 == Add(Add(p.y, Mul(timeStep, v.y)), Mul(Mul(timeStepSqrHalf, f.y), massInverse))
      inside0 == ds.insideContainer[i] \/ isNormalizedPositionInContainer(xPos0, yPos0)
      left == inside0 /\ Le(xPos0, minX) /\ Lt(v.x, Zero)
      right == inside0 /\ ~left /\ Ge(xPos0, maxX) /\ Gt(v.x, Zero)
      xPos == IF left THEN minX ELSE IF right THEN maxX ELSE xPos0
      vx == IF left \/ right THEN Neg(v.x) ELSE v.x
      accX == IF left /\ Gt(xPos, middleHeight) THEN Neg(v.x)
              ELSE IF right /\ Gt(xPos, middleHeight) THEN v.x
              ELSE Zero
      bottom == inside0 /\ Le(yPos0, minY) /\ Le(v.y, Zero)
      top == inside0 /\ ~bottom /\ Ge(yPos0, maxY)
      lid == top /\ ~containerExploded
      lidVelocity == normalizedLidVelocityY
      yPos == IF bottom THEN minY ELSE IF lid THEN maxY ELSE yPos0
      vy == IF bottom THEN Neg(v.y)
            ELSE IF lid /\ Gt(v.y, Zero)
                 THEN Add(Neg(v.y), Mul(lidVelocity, LID_VELOCITY_FRACTION))
            ELSE IF lid /\ Lt(Abs(v.y), Abs(lidVelocity)) THEN lidVelocity
            ELSE v.y
      accY == IF lid /\ Gt(v.y, Zero) THEN Abs(v.y) ELSE Zero
  IN  [ candidate |-> Vec(xPos0, yPos0),
        position |-> Vec(xPos, yPos),
        velocity |-> Vec(vx, vy),
        insideContainer |-> IF top /\ containerExploded THEN FALSE ELSE inside0,
        angle |-> Add(ds.moleculeRotationAngles[i],
                      Add(Mul(timeStep, ds.moleculeRotationRates[i]),
                          Mul(Mul(timeStepSqrHalf, ds.moleculeTorques[i]), inertiaInverse))),
        accumulatedPressure |-> Add(accX, accY),
        lidChanged |-> lid /\ lidVelocity # Zero ]

\* Mutant of MoveMolecule: the lid handling takes the container for exploded.
MoveMolecule_noLid(ds, i, timeStep, containerExploded) == MoleculeStep(ds, i, timeStep, TRUE)

\* Mutant of MoveMolecule: the wall handling does not look at insideContainer.
MoveMolecule_handlesAll(ds, i, timeStep, containerExploded) ==
  MoleculeStep([ds EXCEPT !.insideContainer = [m \in DOMAIN ds.insideContainer |-> TRUE]],
               i, timeStep, containerExploded)

\* the loop body for molecule i, containerExploded being what
\* multipleParticleModel.getContainerExploded() gives during the loop
MoveMolecule(ds, i, timeStep, containerExploded) ==
  MoleculeStep(ds, i, timeStep, containerExploded)

\* Mutants of updatePressure (used to show that the properties below depend on it).
\* The exploded branch is dropped and the flag is set from the comparison.
updatePressure_resignals(pressureZoneWallForce, dt, currentPressure, containerExploded) ==
  LET window == Num(PRESSURE_CALC_TIME_WINDOW)
      p == Add(Mul(Div(dt, window),
                   Div(pressureZoneWallForce,
                       Add(normalizedContainerWidth, normalizedContainerHeight))),
               Mul(Div(Sub(window, dt), window), currentPressure))
  IN  [ pressure |-> IF containerExploded THEN Zero ELSE p,
        setContainerExploded |-> <<Gt(p, EXPLOSION_PRESSURE)>> ]

\* The threshold is compared with the pressure before the update.
updatePressure_stale(pressureZoneWallForce, dt, currentPressure, containerExploded) ==
  IF containerExploded
  THEN [ pressure |-> Zero, setContainerExploded |-> <<>> ]
  ELSE LET window == Num(PRESSURE_CALC_TIME_WINDOW)
           p == Add(Mul(Div(dt, window),
                        Div(pressureZoneWallForce,
                            Add(normalizedContainerWidth, normalizedContainerHeight))),
                    Mul(Div(Sub(window, dt), window), currentPressure))
       IN  [ pressure |-> p,
             setContainerExploded |->
               IF Gt(currentPressure, EXPLOSION_PRESSURE) /\ ~containerExploded THEN <<TRUE>> ELSE <<>> ]

\* The exploded branch leaves the pressure alone.
updatePressure_keeps(pressureZoneWallForce, dt, currentPressure, containerExploded) ==
  IF containerExploded
  THEN [ pressure |-> currentPressure, setContainerExploded |-> <<>> ]
  ELSE LET window == Num(PRESSURE_CALC_TIME_WINDOW)
           p == Add(Mul(Div(dt, window),
                        Div(pressureZoneWallForce,
                            Add(normalizedContainerWidth, normalizedContainerHeight))),
                    Mul(Div(Sub(window, dt), window), currentPressure))
       IN  [ pressure |-> p,
             setContainerExploded |->
               IF Gt(p, EXPLOSION_PRESSURE) /\ ~containerExploded THEN <<TRUE>> ELSE <<>> ]

\* The share of the previous pressure is taken off instead of added.
updatePressure_difference(pressureZoneWallForce, dt, currentPressure, containerExploded) ==
  IF containerExploded
  THEN [ pressure |-> Zero, setContainerExploded |-> <<>> ]
  ELSE LET window == Num(PRESSURE_CALC_TIME_WINDOW)
           p == Sub(Mul(Div(dt, window),
                        Div(pressureZoneWallForce,
                            Add(normalizedContainerWidth, normalizedContainerHeight))),
                    Mul(Div(Sub(window, dt), window), currentPressure))
       IN  [ pressure |-> p,
             setContainerExploded |->
               IF Gt(p, EXPLOSION_PRESSURE) /\ ~containerExploded THEN <<TRUE>> ELSE <<>> ]

\* updatePressure( pressureZoneWallForce, dt ): the new value of pressureProperty and
\* the arguments of the calls of multipleParticleModel.setContainerExploded it makes,
\* currentPressure being pressureProperty.get() and containerExploded
\* multipleParticleModel.isExplodedProperty.get() when it is called.
updatePressure(pressureZoneWallForce, dt, currentPressure, containerExploded) ==
  IF containerExploded
  THEN [ pressure |-> Zero, setContainerExploded |-> <<>> ]
  ELSE LET window == Num(PRESSURE_CALC_TIME_WINDOW)
           p == Add(Mul(Div(dt, window),
                        Div(pressureZoneWallForce,
                            Add(normalizedContainerWidth, normalizedContainerHeight))),
                    Mul(Div(Sub(window, dt), window), currentPressure))
       IN  [ pressure |-> p,
             setContainerExploded |->
               IF Gt(p, EXPLOSION_PRESSURE) /\ ~containerExploded THEN <<TRUE>> ELSE <<>> ]

\* updateMoleculePositions( moleculeDataSet, timeStep ): the loop over the molecules,
\* then the atom positions are brought up to date by this.positionUpdater, then the
\* pressure is updated with the wall impulse the loop accumulated.  setXY on a
\* center of mass that is one object with the atom position moves the atom too.
\* currentPressure and containerExploded are pressureProperty and isExplodedProperty
\* at the call.
updateMoleculePositions(ds, timeStep, currentPressure, containerExploded) ==
  LET molecules == DOMAIN ds.moleculeCenterOfMassPositions
      result(moved) ==
        LET accumulatedPressure ==
              SumOver([i \in molecules |-> moved[i].accumulatedPressure],
                      0, Cardinality(molecules) - 1)
            pressureZoneWallForce == Mul(accumulatedPressure, Num(PRESSURE_MULTIPLIER))
            afterLoop ==
              [ds EXCEPT
                 !.moleculeCenterOfMassPositions = [i \in molecules |-> moved[i].position],
                 !.moleculeVelocities = [i \in molecules |-> moved[i].velocity],
                 !.moleculeRotationAngles = [i \in molecules |-> moved[i].angle],
                 !.insideContainer = [i \in molecules |-> moved[i].insideContainer]]
            atPositionUpdate ==
              IF ds.atomsPerMolecule = 1
              THEN [afterLoop EXCEPT
                      !.atomPositions =
                         [i \in molecules |->
                            IF ds.sameObject[i] THEN moved[i].position
                            ELSE ds.atomPositions[i]]]
              ELSE afterLoop
        IN  [ dataSet |-> positionUpdater(atPositionUpdate),
              dataSetAtPositionUpdate |-> atPositionUpdate,
              moved |-> moved,
              lidChanged |-> \E i \in molecules : moved[i].lidChanged,
              pressureZoneWallForce |-> pressureZoneWallForce,
              update |-> updatePressure(pressureZoneWallForce, timeStep,
                                        currentPressure, containerExploded) ]
  IN  CHOOSE r \in {result(moved) :
                    moved \in {[i \in molecules |->
                                  MoveMolecule(ds, i, timeStep, containerExploded)]}} :
        TRUE

----------------------------------------------------------------------------
(* The abstract methods of AbstractVerletAlgorithm, as the design describes *)
(* them for the descendant classes                                          *)

gravitationalAcceleration == Rat(1, 4)

\* what one pair of molecules does to each other in a force pass: the force and
\* torque on the molecule with the lower index (the other one gets the opposite)
Interactions ==
  { [force |-> ZeroVec, torque |-> Zero],
    [force |-> Vec(Rat(1, 2), Zero), torque |-> Rat(1, 10)] }

\* initializeForces: gravity only, no torque
initializeForces(ds) ==
  [ nextMoleculeForces |->
      [i \in DOMAIN ds.moleculeForces |-> Vec(Zero, Neg(gravitationalAcceleration))],
    nextMoleculeTorques |-> [i \in DOMAIN ds.moleculeTorques |-> Zero] ]

\* updateInteractionForces: every pair i < j adds the interaction to i and takes
\* it from j
updateInteractionForces(next, interaction) ==
  LET molecules == DOMAIN next.nextMoleculeForces
      lower(i) == Cardinality({j \in molecules : j < i})
      higher(i) == Cardinality({j \in molecules : j > i})
      k(i) == Num(higher(i) - lower(i))
  IN  [ nextMoleculeForces |->
          [i \in molecules |->
             Vec(Add(next.nextMoleculeForces[i].x, Mul(k(i), interaction.force.x)),
                 Add(next.nextMoleculeForces[i].y, Mul(k(i), interaction.force.y)))],
        nextMoleculeTorques |->
          [i \in molecules |-> Add(next.nextMoleculeTorques[i], Mul(k(i), interaction.torque))] ]

\* updateVelocitiesAndRotationRates: second half of velocity Verlet, then the new
\* forces and torques become the current ones
updateVelocitiesAndRotationRates(ds, next, timeStep) ==
  LET timeStepHalf == Div(timeStep, Num(2))
      massInverse == Inv(ds.moleculeMass)
      inertiaInverse == Inv(ds.moleculeRotationalInertia)
  IN  [ds EXCEPT
         !.moleculeVelocities =
            [i \in DOMAIN ds.moleculeVelocities |->
               Vec(Add(ds.moleculeVelocities[i].x,
                       Mul(Mul(timeStepHalf,
                               Add(ds.moleculeForces[i].x, next.nextMoleculeForces[i].x)),
                           massInverse)),
                   Add(ds.moleculeVelocities[i].y,
                       Mul(Mul(timeStepHalf,
                               Add(ds.moleculeForces[i].y, next.nextMoleculeForces[i].y)),
                           massInverse)))],
         !.moleculeRotationRates =
            [i \in DOMAIN ds.moleculeVelocities |->
               Add(ds.moleculeRotationRates[i],
                   Mul(Mul(timeStepHalf,
                           Add(ds.moleculeTorques[i], next.nextMoleculeTorques[i])),
                       inertiaInverse))],
         !.moleculeForces = next.nextMoleculeForces,
         !.moleculeTorques = next.nextMoleculeTorques]

\* isExplodedProperty after the calls setContainerExploded( b ) with the arguments
\* in calls, made in that order
setContainerExploded(current, calls) ==
  IF calls = <<>> THEN current ELSE calls[Len(calls)]

\* Mutant of updateForcesAndMotion: the pressure update and the explosion check
\* run last, on the data set the step ends with.
updateForcesAndMotion_pressureLast(model, timeStep, interaction) ==
  LET result(moved, next) ==
        LET final == updateVelocitiesAndRotationRates(moved.dataSet, next, timeStep)
        IN  [ moleculeDataSet |-> final,
              pressure |-> moved.update.pressure,
              isExploded |->
                setContainerExploded(model.isExploded, moved.update.setContainerExploded),
              lidChangedParticleVelocity |->
                model.lidChangedParticleVelocity \/ moved.lidChanged,
              positions |-> [moved EXCEPT !.dataSet = final] ]
      forces(moved) ==
        CHOOSE r \in {result(moved, next) :
                      next \in {updateInteractionForces(initializeForces(moved.dataSet),
                                                        interaction)}} :
          TRUE
  IN  CHOOSE r \in {forces(moved) :
                    moved \in {updateMoleculePositions(model.moleculeDataSet, timeStep,
                                                       model.pressure, model.isExploded)}} :
        TRUE

\* updateForcesAndMotion( timeStep ) on the owning model in state model (its data
\* set, pressureProperty, isExplodedProperty and the flag
\* lidChangedParticleVelocity of the integrator), the forces between the molecules
\* being those of interaction: the state it leaves, and in positions what
\* updateMoleculePositions did
updateForcesAndMotion(model, timeStep, interaction) ==
  LET result(moved, next) ==
        [ moleculeDataSet |->
            updateVelocitiesAndRotationRates(moved.dataSet, next, timeStep),
          pressure |-> moved.update.pressure,
          isExploded |->
            setContainerExploded(model.isExploded, moved.update.setContainerExploded),
          lidChangedParticleVelocity |->
            model.lidChangedParticleVelocity \/ moved.lidChanged,
          positions |-> moved ]
      forces(moved) ==
        CHOOSE r \in {result(moved, next) :
                      next \in {updateInteractionForces(initializeForces(moved.dataSet),
                                                        interaction)}} :
          TRUE
  IN  CHOOSE r \in {forces(moved) :
                    moved \in {updateMoleculePositions(model.moleculeDataSet, timeStep,
                                                       model.pressure, model.isExploded)}} :
        TRUE

----------------------------------------------------------------------------
(* DiatomicPhaseStateChanger                                               *)

SOLID_TEMPERATURE == 10

MIN_INITIAL_DIAMETER_DISTANCE == 2

DIATOMIC_PARTICLE_DISTANCE == Rat(9, 10)

\* AbstractPhaseStateChanger.DISTANCE_BETWEEN_PARTICLES_IN_CRYSTAL
DISTANCE_BETWEEN_PARTICLES_IN_CRYSTAL == Rat(12, 100)

\* Math.round( Math.sqrt( m ) ) for an integer m >= 0
RoundSqrt(m) ==
  CHOOSE r \in 0 .. (m + 1) :
    /\ (2 * r - 1) * (2 * r - 1) <= 4 * m \/ r = 0
    /\ 4 * m < (2 * r + 1) * (2 * r + 1)

moleculesPerLayer(numberOfMolecules) == Rat(RoundSqrt(numberOfMolecules * 2), 2)

\* this.rand: the velocities temperatureSqrt * this.rand.nextGaussian() hands out to
\* the molecules, by the state of the generator when setPhaseSolid starts
RandomVelocities == <<Vec(Zero, Num(2)), Vec(Num(1), Rat(1, 4)), Vec(Num(-1), Zero)>>

RandomSeeds == {0, 1}

Gaussian(seed, n) == [m \in 0 .. (n - 1) |-> RandomVelocities[((seed + m) % 3) + 1]]

\* The (layer, column) pairs of the nested loops of setPhaseSolid in the order the
\* loops visit them: the k-th placement, k = 0, 1, ...
SolidLoop(numberOfMolecules, k) ==
  LET perLayer == moleculesPerLayer(numberOfMolecules)
      \* columns j = 0, 1, ... with j < moleculesPerLayer
      columns == (perLayer[1] + perLayer[2] - 1) \div perLayer[2]
  IN  [i |-> k \div columns, j |-> k % columns]

\* var moleculeIndex = ( i * moleculesPerLayer ) + j
SolidMoleculeIndex(numberOfMolecules, i, j) ==
  Add(Mul(Num(i), moleculesPerLayer(numberOfMolecules)), Num(j))

\* the placements the loops complete: an index that is no array index makes
\* moleculeCenterOfMassPositions[ moleculeIndex ] undefined and the call throws
SolidPlacements(numberOfMolecules) ==
  LET ok(k) == LET ij == SolidLoop(numberOfMolecules, k)
                   idx == SolidMoleculeIndex(numberOfMolecules, ij.i, ij.j)
               IN  idx[2] = 1 /\ idx[1] \in 0 .. (numberOfMolecules - 1)
  IN  {k \in 0 .. (numberOfMolecules - 1) : \A m \in 0 .. k : ok(m)}

SolidPosition(numberOfMolecules, i, j) ==
  LET crystalWidth == Mul(moleculesPerLayer(numberOfMolecules), Rat(17, 10))
      startingPosX == Sub(Div(normalizedContainerWidth, Num(2)), Div(crystalWidth, Num(2)))
      startingPosY == Add(Rat(12, 10), DISTANCE_BETWEEN_PARTICLES_IN_CRYSTAL)
      x0 == Add(startingPosX, Mul(Num(j), Num(MIN_INITIAL_DIAMETER_DISTANCE)))
      xPos == IF i % 2 # 0
              THEN Add(x0, Div(Add(Num(1), DISTANCE_BETWEEN_PARTICLES_IN_CRYSTAL), Num(2)))
              ELSE x0
      yPos == Add(startingPosY, Mul(Mul(Num(i), Num(MIN_INITIAL_DIAMETER_DISTANCE)), Rat(1, 2)))
  IN  Vec(xPos, yPos)

\* setPhaseSolid, on data set ds with the random velocities rnd[ moleculeIndex ]:
\* the data set after the placements the loops complete
setPhaseSolid(ds, rnd) ==
  LET molecules == DOMAIN ds.moleculeCenterOfMassPositions
      n == Cardinality(molecules)
      placed == SolidPlacements(n)
      ij(k) == SolidLoop(n, k)
      index(k) == SolidMoleculeIndex(n, ij(k).i, ij(k).j)[1]
      at(m) == CHOOSE k \in placed : index(k) = m
      written == {index(k) : k \in placed}
      layers == {ij(k).i : k \in placed}
  IN  [ds EXCEPT
         !.moleculeCenterOfMassPositions =
            [m \in molecules |->
               IF m \in written THEN SolidPosition(n, ij(at(m)).i, ij(at(m)).j)
               ELSE ds.moleculeCenterOfMassPositions[m]],
         !.moleculeRotationAngles =
            [m \in molecules |-> IF m \in written THEN Zero ELSE ds.moleculeRotationAngles[m]],
         !.moleculeVelocities =
            [m \in molecules |-> IF m \in written THEN rnd[m] ELSE ds.moleculeVelocities[m]],
         !.insideContainer =
            [m \in molecules |-> IF m \in layers THEN TRUE ELSE ds.insideContainer[m]]]

\* the data set of a diatomic substance with n molecules as the model constructs it
NewDiatomicDataSet(n) ==
  [ moleculeMass |-> Num(2),
    moleculeRotationalInertia |->
      Mul(Num(2), Sq(Div(DIATOMIC_PARTICLE_DISTANCE, Num(2)))),
    moleculeCenterOfMassPositions |-> [i \in 0 .. (n - 1) |-> ZeroVec],
    moleculeVelocities |-> [i \in 0 .. (n - 1) |-> ZeroVec],
    moleculeForces |-> [i \in 0 .. (n - 1) |-> ZeroVec],
    moleculeRotationAngles |-> [i \in 0 .. (n - 1) |-> Zero],
    moleculeRotationRates |-> [i \in 0 .. (n - 1) |-> Zero],
    moleculeTorques |-> [i \in 0 .. (n - 1) |-> Zero],
    insideContainer |-> [i \in 0 .. (n - 1) |-> TRUE],
    atomsPerMolecule |-> 2,
    atomPositions |-> [ centers |-> [i \in 0 .. (n - 1) |-> ZeroVec],
                        angles |-> [i \in 0 .. (n - 1) |-> Zero] ] ]

----------------------------------------------------------------------------
(* The owning model (MultipleParticleModel)                                *)

Init ==
  /\ \E seed \in RandomSeeds :
       moleculeDataSet =
         DiatomicUpdateAtomPositions(setPhaseSolid(NewDiatomicDataSet(NumMolecules),
                                                   Gaussian(seed, NumMolecules)))
  /\ pressure = Zero
  /\ isExploded = FALSE
  /\ normalizedContainerHeight = normalizedTotalContainerHeight
  /\ normalizedLidVelocityY = Zero
  /\ lidChangedParticleVelocity = FALSE
  /\ temperatureSetPoint = Num(SOLID_TEMPERATURE)
  /\ temperature = Zero
  /\ lastCall = [op |-> "new"]
  /\ steps = 0

\* one call of updateForcesAndMotion( timeStep ) of the integrator, the forces
\* between the molecules being those of interaction
Step(timeStep, interaction) ==
  /\ steps < MaxSteps
  /\ \E done \in {updateForcesAndMotion(
                    [ moleculeDataSet |-> moleculeDataSet,
                      pressure |-> pressure,
                      isExploded |-> isExploded,
                      lidChangedParticleVelocity |-> lidChangedParticleVelocity ],
                    timeStep, interaction)} :
     \E moved \in {done.positions} :
         /\ moleculeDataSet' = done.moleculeDataSet
         /\ pressure' = done.pressure
         /\ isExploded' = done.isExploded
         /\ lidChangedParticleVelocity' = done.lidChangedParticleVelocity
         /\ lastCall' = [ op |-> "step",
                          dt |-> timeStep,
                          pressureZoneWallForce |-> moved.pressureZoneWallForce,
                          explodedAtEntry |-> isExploded,
                          pressureAtEntry |-> pressure,
                          heightAtEntry |-> normalizedContainerHeight,
                          insideAtEntry |-> moleculeDataSet.insideContainer,
                          setContainerExploded |-> moved.update.setContainerExploded,
                          dataSetAtEntry |-> moleculeDataSet,
                          lidVelocityAtEntry |-> normalizedLidVelocityY,
                          moved |-> moved.moved,
                          dataSetAtPositionUpdate |-> moved.dataSetAtPositionUpdate,
                          dataSetAtPressureUpdate |-> moved.dataSet ]
  /\ steps' = steps + 1
  /\ UNCHANGED <<normalizedContainerHeight, normalizedLidVelocityY, temperatureSetPoint,
                 temperature>>

\* updatePressure( pressureZoneWallForce, dt ), called on the integrator directly
UpdatePressure(pressureZoneWallForce, dt) ==
  /\ steps < MaxSteps
  /\ \E update \in {updatePressure(pressureZoneWallForce, dt, pressure, isExploded)} :
       /\ pressure' = update.pressure
       /\ isExploded' = setContainerExploded(isExploded, update.setContainerExploded)
       /\ lastCall' = [ op |-> "updatePressure",
                        dt |-> dt,
                        pressureZoneWallForce |-> pressureZoneWallForce,
                        explodedAtEntry |-> isExploded,
                        pressureAtEntry |-> pressure,
                        heightAtEntry |-> normalizedContainerHeight,
                        setContainerExploded |-> update.setContainerExploded ]
  /\ steps' = steps + 1
  /\ UNCHANGED <<moleculeDataSet, normalizedContainerHeight, normalizedLidVelocityY,
                 lidChangedParticleVelocity, temperatureSetPoint, temperature>>

\* setTargetContainerHeight( h ): the lid is driven to h and moves until
\* LidReachesTarget
SetTargetContainerHeight(h) ==
  /\ steps < MaxSteps
  /\ ~isExploded
  /\ h # normalizedContainerHeight
  /\ normalizedContainerHeight' = Max(Zero, Min(h, normalizedTotalContainerHeight))
  /\ normalizedLidVelocityY' = Sub(normalizedContainerHeight', normalizedContainerHeight)
  /\ lastCall' = [op |-> "setTargetContainerHeight"]
  /\ steps' = steps + 1
  /\ UNCHANGED <<moleculeDataSet, pressure, isExploded, lidChangedParticleVelocity,
                 temperatureSetPoint, temperature>>

\* the lid has reached the height it was driven to and is at rest
LidReachesTarget ==
  /\ normalizedLidVelocityY # Zero
  /\ normalizedLidVelocityY' = Zero
  /\ lastCall' = [op |-> "lidReachesTarget"]
  /\ UNCHANGED <<moleculeDataSet, pressure, isExploded, normalizedContainerHeight,
                 lidChangedParticleVelocity, temperatureSetPoint, temperature, steps>>

\* setPhase( SOLID ): setPhaseSolid, the temperature set point, then the atom
\* positions are brought up to date
SetPhaseSolid(seed) ==
  /\ steps < MaxSteps
  /\ moleculeDataSet' =
       DiatomicUpdateAtomPositions(setPhaseSolid(moleculeDataSet,
                                                 Gaussian(seed, NumMolecules)))
  /\ temperatureSetPoint' = Num(SOLID_TEMPERATURE)
  /\ lastCall' = [op |-> "setPhase"]
  /\ steps' = steps + 1
  /\ UNCHANGED <<pressure, isExploded, normalizedContainerHeight, normalizedLidVelocityY,
                 lidChangedParticleVelocity, temperature>>

\* setPhaseSolid(), called on the phase state changer itself: the temperature set
\* point and the placement, which an index outside the data set ends with an
\* exception; the atom positions are not brought up to date.  Followed among the
\* first MaxPhaseChanges operations of a behaviour.
SetPhaseSolidDirectly(seed) ==
  /\ steps < MaxPhaseChanges
  /\ \E n \in {Cardinality(DOMAIN moleculeDataSet.moleculeCenterOfMassPositions)} :
       /\ moleculeDataSet' = setPhaseSolid(moleculeDataSet, Gaussian(seed, n))
       /\ lastCall' = [ op |-> "setPhaseSolid",
                        moleculesPlaced |-> Cardinality(SolidPlacements(n)),
                        threw |-> SolidPlacements(n) # 0 .. (n - 1),
                        dataSetAtEntry |-> moleculeDataSet,
                        setPointAtEntry |-> temperatureSetPoint ]
  /\ temperatureSetPoint' = Num(SOLID_TEMPERATURE)
  /\ steps' = steps + 1
  /\ UNCHANGED <<pressure, isExploded, normalizedContainerHeight, normalizedLidVelocityY,
                 lidChangedParticleVelocity, temperature>>

\* returnLid(): re-seats the lid of an exploded container. The container stays
\* exploded: the exploded state is left only by reset().
ReturnLid ==
  /\ steps < MaxSteps
  /\ isExploded
  /\ normalizedContainerHeight' = normalizedTotalContainerHeight
  /\ normalizedLidVelocityY' = Zero
  /\ lastCall' = [op |-> "returnLid", explodedAtEntry |-> isExploded]
  /\ steps' = steps + 1
  /\ UNCHANGED <<moleculeDataSet, pressure, isExploded, lidChangedParticleVelocity,
                 temperatureSetPoint, temperature>>

\* reset(): clears the exploded state, restores the container height, re-seeds
\* phase and temperature
Reset(seed) ==
  /\ steps < MaxSteps
  /\ moleculeDataSet' =
       DiatomicUpdateAtomPositions(setPhaseSolid(moleculeDataSet,
                                                 Gaussian(seed, NumMolecules)))
  /\ temperatureSetPoint' = Num(SOLID_TEMPERATURE)
  /\ isExploded' = FALSE
  /\ normalizedContainerHeight' = normalizedTotalContainerHeight
  /\ normalizedLidVelocityY' = Zero
  /\ lastCall' = [op |-> "reset"]
  /\ steps' = steps + 1
  /\ UNCHANGED <<pressure, lidChangedParticleVelocity, temperature>>

Next ==
  \/ \E timeStep \in TimeSteps, interaction \in Interactions : Step(timeStep, interaction)
  \/ \E pressureZoneWallForce \in {Num(PRESSURE_MULTIPLIER)}, dt \in {Num(3)} :
       UpdatePressure(pressureZoneWallForce, dt)
  \/ \E h \in ContainerHeights : SetTargetContainerHeight(h)
  \/ LidReachesTarget
  \/ \E seed \in RandomSeeds : SetPhaseSolid(seed)
  \/ \E seed \in RandomSeeds : SetPhaseSolidDirectly(seed)
  \/ ReturnLid
  \/ \E seed \in RandomSeeds : Reset(seed)

Spec == Init /\ [][Next]_vars

----------------------------------------------------------------------------
(* The owning model with a lid that is driven down in small and large moves *)

\* heights the lid is driven to: a little below the top, and below the sum of the
\* bounce insets of top and bottom
LidTargetHeights == {Num(6), Num(1), normalizedTotalContainerHeight}

\* time steps handed to the integrator while the lid is driven
LidTimeSteps == {Rat(1, 2), Num(6)}

\* a data set in an intact container of full height: molecule 0 has just bounced
\* off the lid at rest and leaves the top bounce line downwards with the given
\* speed, the other molecules rest on the bottom bounce line
NewLidDataSet(speed) ==
  [NewDiatomicDataSet(NumMolecules) EXCEPT
     !.moleculeCenterOfMassPositions =
        [i \in Molecules |->
           IF i = 0
           THEN Vec(Num(3), Sub(normalizedTotalContainerHeight, topBounceInset))
           ELSE Vec(Num(3 + 2 * i), bottomBounceInset)],
     !.moleculeVelocities =
        [i \in Molecules |-> IF i = 0 THEN Vec(Zero, Neg(speed)) ELSE ZeroVec]]

InitLid ==
  /\ \E speed \in {Num(2), Rat(1, 4)} :
       moleculeDataSet = DiatomicUpdateAtomPositions(NewLidDataSet(speed))
  /\ pressure = Zero
  /\ isExploded = FALSE
  /\ normalizedContainerHeight = normalizedTotalContainerHeight
  /\ normalizedLidVelocityY = Zero
  /\ lidChangedParticleVelocity = FALSE
  /\ temperatureSetPoint = Num(SOLID_TEMPERATURE)
  /\ temperature = Zero
  /\ lastCall = [op |-> "new"]
  /\ steps = 0

NextLid ==
  \/ \E timeStep \in LidTimeSteps :
       Step(timeStep, [force |-> ZeroVec, torque |-> Zero])
  \/ \E h \in LidTargetHeights : SetTargetContainerHeight(h)
  \/ LidReachesTarget

SpecLid == InitLid /\ [][NextLid]_vars

----------------------------------------------------------------------------
(* AbstractVerletAlgorithm on a monatomic data set                         *)

\* the data set of a monatomic substance: one atom per molecule, rotational
\* inertia 0, torques 0; the atoms in a row above the bottom of the container
NewMonatomicVerletDataSet(seed) ==
  [ moleculeMass |-> Num(1),
    moleculeRotationalInertia |-> Zero,
    moleculeCenterOfMassPositions |-> [i \in Molecules |-> Vec(Num(4 + 2 * i), Num(2))],
    moleculeVelocities |-> Gaussian(seed, NumMolecules),
    moleculeForces |-> [i \in Molecules |-> ZeroVec],
    moleculeRotationAngles |-> [i \in Molecules |-> Zero],
    moleculeRotationRates |-> [i \in Molecules |-> Zero],
    moleculeTorques |-> [i \in Molecules |-> Zero],
    insideContainer |-> [i \in Molecules |-> TRUE],
    atomsPerMolecule |-> 1,
    atomPositions |-> [i \in Molecules |-> ZeroVec],
    sameObject |-> [i \in Molecules |-> FALSE],
    insideContainers |-> [i \in Molecules |-> TRUE] ]

\* atoms exert forces on each other and no torques
MonatomicInteractions ==
  { [force |-> ZeroVec, torque |-> Zero],
    [force |-> Vec(Rat(1, 2), Zero), torque |-> Zero] }

InitMonatomicVerlet ==
  /\ \E seed \in RandomSeeds : moleculeDataSet = NewMonatomicVerletDataSet(seed)
  /\ pressure = Zero
  /\ isExploded = FALSE
  /\ normalizedContainerHeight = normalizedTotalContainerHeight
  /\ normalizedLidVelocityY = Zero
  /\ lidChangedParticleVelocity = FALSE
  /\ temperatureSetPoint = Num(SOLID_TEMPERATURE)
  /\ temperature = Zero
  /\ lastCall = [op |-> "new"]
  /\ steps = 0

NextMonatomicVerlet ==
  \/ \E timeStep \in TimeSteps, interaction \in MonatomicInteractions :
       Step(timeStep, interaction)
  \/ \E h \in ContainerHeights : SetTargetContainerHeight(h)
  \/ LidReachesTarget
  \/ ReturnLid

SpecMonatomicVerlet == InitMonatomicVerlet /\ [][NextMonatomicVerlet]_vars

----------------------------------------------------------------------------
(* MonatomicAtomPositionUpdater in the monatomic integrator, and called    *)
(* directly                                                                *)

\* offsets handed to updateAtomPositions: undefined, which is what
\* updateAtomPositions( moleculeDataSet ) of the integrator hands over, and the
\* offsets of a lid at the top and one unit down
LidOffsets == {NaN, Zero, Num(1)}

\* the monatomic data set as constructed, the first inside molecules marked as
\* inside; an insideContainers entry that was never set is falsy
InitMono ==
  /\ \E seed \in RandomSeeds, inside \in 0 .. NumMolecules :
       moleculeDataSet =
         [NewMonatomicVerletDataSet(seed) EXCEPT
            !.insideContainers = [i \in Molecules |-> i < inside]]
  /\ pressure = Zero
  /\ isExploded = FALSE
  /\ normalizedContainerHeight = normalizedTotalContainerHeight
  /\ normalizedLidVelocityY = Zero
  /\ lidChangedParticleVelocity = FALSE
  /\ temperatureSetPoint = Num(SOLID_TEMPERATURE)
  /\ temperature = Zero
  /\ lastCall = [op |-> "new"]
  /\ steps = 0

\* MonatomicAtomPositionUpdater.updateAtomPositions( moleculeDataSet, offset )
UpdateAtomPositions(offset) ==
  /\ moleculeDataSet' = updateAtomPositions(moleculeDataSet, offset)
  /\ lastCall' = [ op |-> "updateAtomPositions",
                   offset |-> offset,
                   dataSetAtPositionUpdate |-> moleculeDataSet ]
  /\ UNCHANGED <<pressure, isExploded, normalizedContainerHeight, normalizedLidVelocityY,
                 lidChangedParticleVelocity, temperatureSetPoint, temperature, steps>>

NextMono ==
  \/ \E timeStep \in TimeSteps, interaction \in MonatomicInteractions :
       Step(timeStep, interaction)
  \/ \E offset \in LidOffsets : UpdateAtomPositions(offset)

SpecMono == InitMono /\ [][NextMono]_vars

----------------------------------------------------------------------------
(* WaterVerletAlgorithm                                                    *)

WATER_FULLY_MELTED_TEMPERATURE == Rat(3, 10)

WATER_FULLY_MELTED_ELECTROSTATIC_FORCE == Num(1)

WATER_FULLY_FROZEN_TEMPERATURE == Rat(22, 100)

WATER_FULLY_FROZEN_ELECTROSTATIC_FORCE == Num(4)

MAX_REPULSIVE_SCALING_FACTOR_FOR_WATER == Num(3)

PARTICLE_INTERACTION_DISTANCE_THRESH_SQRD == Rat(625, 100)

\* Mutant of MIN_DISTANCE_SQUARED: the squared distances have no floor.
MIN_DISTANCE_SQUARED_none == Zero

MIN_DISTANCE_SQUARED == Rat(9, 10)

\* this.TEMPERATURE_BELOW_WHICH_GRAVITY_INCREASES and
\* this.LOW_TEMPERATURE_GRAVITY_INCREASE_RATE: AbstractVerletAlgorithm defines
\* neither, so both read as undefined
TEMPERATURE_BELOW_WHICH_GRAVITY_INCREASES == NaN

LOW_TEMPERATURE_GRAVITY_INCREASE_RATE == NaN

\* atoms of one molecule
AtomsPerMolecule == 3

\* Mutant of temperatureFactor: the distance from the fully frozen temperature is
\* not divided by the width of the melting range.
temperatureFactor_unscaled(setPoint) ==
  Sub(setPoint, WATER_FULLY_FROZEN_TEMPERATURE)

\* the fraction of the melting range below the set point
temperatureFactor(setPoint) ==
  Div(Sub(setPoint, WATER_FULLY_FROZEN_TEMPERATURE),
      Sub(WATER_FULLY_MELTED_TEMPERATURE, WATER_FULLY_FROZEN_TEMPERATURE))

\* q0, the charge unit of the coulomb interactions
q0(setPoint) ==
  IF Lt(setPoint, WATER_FULLY_FROZEN_TEMPERATURE)
  THEN WATER_FULLY_FROZEN_ELECTROSTATIC_FORCE
  ELSE IF Gt(setPoint, WATER_FULLY_MELTED_TEMPERATURE)
       THEN WATER_FULLY_MELTED_ELECTROSTATIC_FORCE
       ELSE Sub(WATER_FULLY_FROZEN_ELECTROSTATIC_FORCE,
                Mul(temperatureFactor(setPoint),
                    Sub(WATER_FULLY_FROZEN_ELECTROSTATIC_FORCE,
                        WATER_FULLY_MELTED_ELECTROSTATIC_FORCE)))

normalCharges(q) ==
  [k \in 0 .. 2 |-> IF k = 0 THEN Mul(Num(-2), q) ELSE q]

alteredCharges(q) ==
  [k \in 0 .. 2 |->
     IF k = 0 THEN Mul(Num(-2), q)
     ELSE IF k = 1 THEN Mul(Rat(167, 100), q) ELSE Mul(Rat(33, 100), q)]

\* chargesA, chargesB: the charges of molecule m
charges(m, q) == IF m % 2 = 0 THEN normalCharges(q) ELSE alteredCharges(q)

repulsiveForceScalingFactor(setPoint) ==
  IF Gt(setPoint, WATER_FULLY_MELTED_TEMPERATURE)
  THEN Num(1)
  ELSE IF Lt(setPoint, WATER_FULLY_FROZEN_TEMPERATURE)
       THEN MAX_REPULSIVE_SCALING_FACTOR_FOR_WATER
       ELSE Sub(MAX_REPULSIVE_SCALING_FACTOR_FOR_WATER,
                Mul(temperatureFactor(setPoint),
                    Sub(MAX_REPULSIVE_SCALING_FACTOR_FOR_WATER, Num(1))))

\* the first loop: center of mass positions and rotation angles
WaterMovedPositions(ds, timeStep) ==
  LET timeStepSqrHalf == Mul(Mul(timeStep, timeStep), Rat(1, 2))
      massInverse == Div(Num(1), ds.moleculeMass)
      inertiaInverse == Div(Num(1), ds.moleculeRotationalInertia)
  IN  [ moleculeCenterOfMassPositions |->
          [i \in Molecules |->
             Vec(Add(Add(ds.moleculeCenterOfMassPositions[i].x,
                         Mul(timeStep, ds.moleculeVelocities[i].x)),
                     Mul(Mul(timeStepSqrHalf, ds.moleculeForces[i].x), massInverse)),
                 Add(Add(ds.moleculeCenterOfMassPositions[i].y,
                         Mul(timeStep, ds.moleculeVelocities[i].y)),
                     Mul(Mul(timeStepSqrHalf, ds.moleculeForces[i].y), massInverse)))],
        moleculeRotationAngles |->
          [i \in Molecules |->
             Add(ds.moleculeRotationAngles[i],
                 Add(Mul(timeStep, ds.moleculeRotationRates[i]),
                     Mul(Mul(timeStepSqrHalf, ds.moleculeTorques[i]), inertiaInverse)))] ]

\* WaterAtomPositionUpdater.updateAtomPositions for molecules whose rotation angle
\* is 0, the angle of every molecule of SpecWater when the atoms are placed: atom
\* 3 * i + k is at the center of mass of molecule i plus the structure offset of
\* atom k.  The offsets are taken on the unit lattice, the oxygen first and both
\* hydrogens at distance 1 on the x axis, shifted to the center of mass of the
\* weights 1, 0.25, 0.25, so that every squared distance of the interaction pass
\* is a small integer.
WaterStructure ==
  [k \in 0 .. 2 |-> IF k = 0 THEN Vec(Rat(-1, 3), Zero) ELSE Vec(Rat(2, 3), Zero)]

WaterAtomPositions(centers) ==
  [a \in 0 .. (AtomsPerMolecule * NumMolecules - 1) |->
     Vec(Add(centers[a \div AtomsPerMolecule].x, WaterStructure[a % AtomsPerMolecule].x),
         Add(centers[a \div AtomsPerMolecule].y, WaterStructure[a % AtomsPerMolecule].y))]

\* calculateWallForce: the forces the walls exert on the molecules of one step
WallForceValues ==
  << ZeroVec, Vec(Zero, Num(-3)), Vec(Num(3), Zero), Vec(Num(-3), Num(3)) >>

calculateWallForce(pattern) ==
  [m \in Molecules |-> WallForceValues[((pattern + m) % Len(WallForceValues)) + 1]]

\* the second loop: wall forces, their share of the pressure, gravity
WaterWallLoop(centers, wallForce, setPoint) ==
  LET zoneForce ==
        [i \in Molecules |->
           IF Lt(wallForce[i].y, Zero) THEN Neg(wallForce[i].y)
           ELSE IF Gt(centers[i].y, Div(normalizedContainerHeight, Num(2)))
                THEN Abs(wallForce[i].x)
                ELSE Zero]
      gravity ==
        IF Lt(setPoint, TEMPERATURE_BELOW_WHICH_GRAVITY_INCREASES)
        THEN Mul(gravitationalAcceleration,
                 Add(Mul(Sub(TEMPERATURE_BELOW_WHICH_GRAVITY_INCREASES, setPoint),
                         LOW_TEMPERATURE_GRAVITY_INCREASE_RATE),
                     Num(1)))
        ELSE gravitationalAcceleration
  IN  [ nextMoleculeForces |->
          [i \in Molecules |-> Vec(wallForce[i].x, Sub(wallForce[i].y, gravity))],
        nextMoleculeTorques |-> [i \in Molecules |-> Zero],
        pressureZoneWallForce |-> SumOver(zoneForce, 0, NumMolecules - 1) ]

\* the Lennard-Jones force between the centers of mass of molecules i and j
LennardJonesForce(centers, i, j, distanceSquaredOfCenters, scaling) ==
  LET dx == Sub(centers[i].x, centers[j].x)
      dy == Sub(centers[i].y, centers[j].y)
      distanceSquared == Max(distanceSquaredOfCenters, MIN_DISTANCE_SQUARED)
      r2inv == Div(Num(1), distanceSquared)
      r6inv == Mul(Mul(r2inv, r2inv), r2inv)
      forceScalar == Mul(Mul(Mul(Num(48), r2inv), r6inv),
                         Sub(Mul(r6inv, scaling), Rat(1, 2)))
  IN  [ distanceSquared |-> distanceSquared,
        forceScalar |-> forceScalar,
        force |-> Vec(Mul(dx, forceScalar), Mul(dy, forceScalar)),
        torque1 |-> Zero, torque2 |-> Zero ]

\* the coulomb force between atom ii of molecule i and atom jj of molecule j, and
\* the torques it exerts on the two molecules
CoulombForce(centers, atoms, i, j, ii, jj, q) ==
  LET atomIndex1 == 3 * i + ii
      atomIndex2 == 3 * j + jj
      dx == Sub(atoms[atomIndex1].x, atoms[atomIndex2].x)
      dy == Sub(atoms[atomIndex1].y, atoms[atomIndex2].y)
      distanceSquared == Max(Add(Mul(dx, dx), Mul(dy, dy)), MIN_DISTANCE_SQUARED)
      r2inv == Div(Num(1), distanceSquared)
      forceScalar == Mul(Mul(Mul(charges(i, q)[ii], charges(j, q)[jj]), r2inv), r2inv)
      force == Vec(Mul(dx, forceScalar), Mul(dy, forceScalar))
  IN  [ atomIndex1 |-> atomIndex1,
        atomIndex2 |-> atomIndex2,
        distanceSquared |-> distanceSquared,
        forceScalar |-> forceScalar,
        force |-> force,
        torque1 |-> Sub(Mul(Sub(atoms[atomIndex1].x, centers[i].x), force.y),
                        Mul(Sub(atoms[atomIndex1].y, centers[i].y), force.x)),
        torque2 |-> Sub(Mul(Sub(atoms[atomIndex2].x, centers[j].x), force.y),
                        Mul(Sub(atoms[atomIndex2].y, centers[j].y), force.x)) ]

\* Mutant of ExcludedHydrogen: one hydrogen of every molecule is left out.
ExcludedHydrogen_everyMolecule(atomIndex) == (atomIndex + 1) % 3 = 0

\* the hydrogen atoms left out of the coulomb interactions
ExcludedHydrogen(atomIndex) == (atomIndex + 1) % 6 = 0

RECURSIVE CoulombForces(_, _, _, _, _, _)
CoulombForces(centers, atoms, i, j, k, q) ==
  IF k >= 9 THEN <<>>
  ELSE LET ii == k \div 3
           jj == k % 3
       IN  (IF ExcludedHydrogen(3 * i + ii) \/ ExcludedHydrogen(3 * j + jj)
            THEN <<>>
            ELSE <<CoulombForce(centers, atoms, i, j, ii, jj, q)>>)
           \o CoulombForces(centers, atoms, i, j, k + 1, q)

\* the forces the body of the inner loop computes for the pair i < j, in order
PairForces(centers, atoms, i, j, q, scaling) ==
  LET dx == Sub(centers[i].x, centers[j].x)
      dy == Sub(centers[i].y, centers[j].y)
      distanceSquared == Add(Mul(dx, dx), Mul(dy, dy))
  IN  IF Lt(distanceSquared, PARTICLE_INTERACTION_DISTANCE_THRESH_SQRD)
      THEN <<LennardJonesForce(centers, i, j, distanceSquared, scaling)>>
           \o CoulombForces(centers, atoms, i, j, 0, q)
      ELSE <<>>

\* the pairs i < j of safe molecules whose centers are within the interaction
\* distance, and for each the pairs of atoms the coulomb loops compute a force for
CoulombTerms(centers, atoms, numberOfSafeMolecules, q) ==
  LET safe == 0 .. (numberOfSafeMolecules - 1)
      interacting(i, j) ==
        Lt(Add(Sq(Sub(centers[i].x, centers[j].x)), Sq(Sub(centers[i].y, centers[j].y))),
           PARTICLE_INTERACTION_DISTANCE_THRESH_SQRD)
      pairs == {p \in safe \X safe : p[1] < p[2] /\ interacting(p[1], p[2])}
      terms(i, j) == LET fs == CoulombForces(centers, atoms, i, j, 0, q)
                     IN  {<<fs[k].atomIndex1, fs[k].atomIndex2>> : k \in 1 .. Len(fs)}
  IN  [p \in pairs |-> terms(p[1], p[2])]

\* Mutant of ApplyForce: the force is added to molecule i only.
ApplyForce_oneSided(next, i, j, f) ==
  [ nextMoleculeForces |->
      [next.nextMoleculeForces EXCEPT
         ![i] = Vec(Add(@.x, f.force.x), Add(@.y, f.force.y))],
    nextMoleculeTorques |->
      [next.nextMoleculeTorques EXCEPT
         ![i] = Add(@, f.torque1), ![j] = Sub(@, f.torque2)] ]

\* nextMoleculeForces[ i ].add( this.force ), nextMoleculeForces[ j ].subtract(
\* this.force ), and the two torque updates
ApplyForce(next, i, j, f) ==
  [ nextMoleculeForces |->
      [next.nextMoleculeForces EXCEPT
         ![i] = Vec(Add(@.x, f.force.x), Add(@.y, f.force.y)),
         ![j] = Vec(Sub(@.x, f.force.x), Sub(@.y, f.force.y))],
    nextMoleculeTorques |->
      [next.nextMoleculeTorques EXCEPT
         ![i] = Add(@, f.torque1), ![j] = Sub(@, f.torque2)] ]

RECURSIVE ApplyForces(_, _, _, _, _)
ApplyForces(next, i, j, forces, k) ==
  IF k > Len(forces) THEN next
  ELSE CHOOSE r \in {ApplyForces(applied, i, j, forces, k + 1) :
                       applied \in {ApplyForce(next, i, j, forces[k])}} : TRUE

\* the interaction pass: the loops over the pairs i < j of safe molecules
RECURSIVE WaterInteractionPass(_, _, _, _, _, _, _, _)
WaterInteractionPass(next, centers, atoms, i, j, numberOfSafeMolecules, q, scaling) ==
  IF i >= numberOfSafeMolecules THEN next
  ELSE IF j >= numberOfSafeMolecules
       THEN WaterInteractionPass(next, centers, atoms, i + 1, i + 2,
                                 numberOfSafeMolecules, q, scaling)
       ELSE CHOOSE r \in
              {WaterInteractionPass(applied, centers, atoms, i, j + 1,
                                    numberOfSafeMolecules, q, scaling) :
                 applied \in {ApplyForces(next, i, j,
                                          PairForces(centers, atoms, i, j, q, scaling), 1)}} :
              TRUE

\* the last loop: velocities, rotation rates, kinetic energy, and the temperature
WaterVelocitiesAndTemperature(ds, next, timeStep) ==
  LET timeStepHalf == Div(timeStep, Num(2))
      massInverse == Div(Num(1), ds.moleculeMass)
      inertiaInverse == Div(Num(1), ds.moleculeRotationalInertia)
      velocities ==
        [i \in Molecules |->
           Vec(Add(ds.moleculeVelocities[i].x,
                   Mul(Mul(timeStepHalf,
                           Add(ds.moleculeForces[i].x, next.nextMoleculeForces[i].x)),
                       massInverse)),
               Add(ds.moleculeVelocities[i].y,
                   Mul(Mul(timeStepHalf,
                           Add(ds.moleculeForces[i].y, next.nextMoleculeForces[i].y)),
                       massInverse)))]
      rates ==
        [i \in Molecules |->
           Add(ds.moleculeRotationRates[i],
               Mul(Mul(timeStepHalf,
                       Add(ds.moleculeTorques[i], next.nextMoleculeTorques[i])),
                   inertiaInverse))]
      centersOfMassKineticEnergy ==
        SumOver([i \in Molecules |->
                   Add(Mul(Mul(Mul(Rat(1, 2), ds.moleculeMass), velocities[i].x),
                           velocities[i].x),
                       Mul(velocities[i].y, velocities[i].y))],
                0, NumMolecules - 1)
      rotationalKineticEnergy ==
        SumOver([i \in Molecules |->
                   Mul(Mul(Mul(Rat(1, 2), ds.moleculeRotationalInertia), rates[i]),
                       rates[i])],
                0, NumMolecules - 1)
  IN  [ moleculeVelocities |-> velocities,
        moleculeRotationRates |-> rates,
        temperature |->
          Div(Div(Add(centersOfMassKineticEnergy, rotationalKineticEnergy),
                  Num(NumMolecules)),
              Rat(3, 2)) ]

\* the set points of the thermostat: frozen, at the fully frozen temperature,
\* between frozen and melted, at the fully melted temperature, melted
WaterSetPoints == {Rat(1, 5), Rat(22, 100), Rat(26, 100), Rat(3, 10), Rat(1, 2)}

\* center-of-mass positions of a new data set: two molecules in a column one unit
\* apart, two molecules at the same place, two molecules exactly the interaction
\* distance apart, molecules out of each other's reach, a column in the upper half
WaterPlacements ==
  << << Vec(Num(5), Num(2)), Vec(Num(5), Num(3)), Vec(Num(8), Num(6)), Vec(Num(2), Num(6)) >>,
     << Vec(Num(5), Num(2)), Vec(Num(5), Num(2)), Vec(Num(8), Num(6)), Vec(Num(2), Num(6)) >>,
     << Vec(Num(5), Num(2)), Vec(Rat(15, 2), Num(2)), Vec(Num(5), Num(6)), Vec(Num(1), Num(6)) >>,
     << Vec(Num(2), Num(2)), Vec(Num(5), Num(2)), Vec(Num(8), Num(2)), Vec(Num(5), Num(6)) >>,
     << Vec(Num(5), Num(7)), Vec(Num(5), Num(6)), Vec(Num(1), Num(6)), Vec(Num(9), Num(6)) >> >>

\* the velocity all molecules of a new data set move with
WaterVelocities == << ZeroVec, Vec(Num(1), Num(-1)), Vec(Zero, Num(2)) >>

NewWaterDataSet(placement, velocity, safe) ==
  [ moleculeMass |-> Rat(3, 2),
    moleculeRotationalInertia |-> Rat(1, 3),
    numberOfSafeMolecules |-> safe,
    moleculeCenterOfMassPositions |-> [i \in Molecules |-> WaterPlacements[placement][i + 1]],
    atomPositions |->
      WaterAtomPositions([i \in Molecules |-> WaterPlacements[placement][i + 1]]),
    moleculeVelocities |-> [i \in Molecules |-> WaterVelocities[velocity]],
    moleculeForces |-> [i \in Molecules |-> Vec(Zero, Neg(gravitationalAcceleration))],
    nextMoleculeForces |-> [i \in Molecules |-> ZeroVec],
    moleculeRotationAngles |-> [i \in Molecules |-> Zero],
    moleculeRotationRates |-> [i \in Molecules |-> Zero],
    moleculeTorques |-> [i \in Molecules |-> Zero],
    nextMoleculeTorques |-> [i \in Molecules |-> Zero] ]

InitWater ==
  /\ \E placement \in 1 .. Len(WaterPlacements), velocity \in 1 .. Len(WaterVelocities),
        safe \in {NumMolecules - 1, NumMolecules} :
       moleculeDataSet = NewWaterDataSet(placement, velocity, safe)
  /\ pressure \in {Zero, Rat(1, 2)}
  /\ isExploded = FALSE
  /\ normalizedContainerHeight = normalizedTotalContainerHeight
  /\ normalizedLidVelocityY = Zero
  /\ lidChangedParticleVelocity = FALSE
  /\ temperatureSetPoint \in WaterSetPoints
  /\ temperature = Zero
  /\ lastCall = [op |-> "new"]
  /\ steps = 0

\* WaterVerletAlgorithm.updateForcesAndMotion( timeStep ) on the class as it stands:
\* neither it nor AbstractVerletAlgorithm defines calculateWallForce, so the call
\* in the first iteration of the wall loop throws a TypeError.  By then the
\* charges are set, the centers of mass and the rotation angles have moved, the
\* atom positions are up to date, and nextMoleculeForces[ 0 ] and
\* nextMoleculeTorques[ 0 ] are cleared; nothing else has changed.  Followed while
\* the molecules have not turned (WaterAtomPositions).
WaterStepThrows(timeStep) ==
  /\ steps < MaxWaterSteps
  /\ \E moved \in {WaterMovedPositions(moleculeDataSet, timeStep)} :
       /\ \A i \in Molecules : moved.moleculeRotationAngles[i] = Zero
       /\ moleculeDataSet' =
            [moleculeDataSet EXCEPT
               !.moleculeCenterOfMassPositions = moved.moleculeCenterOfMassPositions,
               !.moleculeRotationAngles = moved.moleculeRotationAngles,
               !.atomPositions = WaterAtomPositions(moved.moleculeCenterOfMassPositions),
               !.nextMoleculeForces[0] = ZeroVec,
               !.nextMoleculeTorques[0] = Zero]
  /\ lastCall' = [ op |-> "updateForcesAndMotion throws",
                   dt |-> timeStep,
                   normalCharges |-> normalCharges(q0(temperatureSetPoint)),
                   alteredCharges |-> alteredCharges(q0(temperatureSetPoint)) ]
  /\ steps' = steps + 1
  /\ UNCHANGED <<pressure, isExploded, normalizedContainerHeight, normalizedLidVelocityY,
                 lidChangedParticleVelocity, temperatureSetPoint, temperature>>

\* WaterVerletAlgorithm.updateForcesAndMotion( timeStep ) with calculateWallForce and
\* updateMoleculeSafety in place (the class calls them, the sources do not have
\* them), followed on the first step on a data set: from the second step on the
\* molecules have turned by angles for which the atom positions are not rational.
\* wallPattern selects the forces calculateWallForce returns, safeAfter the number
\* of safe molecules updateMoleculeSafety leaves.  The call
\* this.updatePressure( pressureZoneWallForce ) passes no second argument: dt is
\* undefined in updatePressure.
WaterStep(timeStep, wallPattern, safeAfter) ==
  /\ steps = 0
  /\ safeAfter >= moleculeDataSet.numberOfSafeMolecules
  /\ moleculeDataSet.numberOfSafeMolecules = NumMolecules => safeAfter = NumMolecules
  /\ \E moved \in {WaterMovedPositions(moleculeDataSet, timeStep)} :
     \E atoms \in {WaterAtomPositions(moved.moleculeCenterOfMassPositions)} :
     \E walls \in {WaterWallLoop(moved.moleculeCenterOfMassPositions,
                                 calculateWallForce(wallPattern), temperatureSetPoint)} :
     \E pressureArguments \in {<<walls.pressureZoneWallForce, NaN>>} :
     \E pressed \in {updatePressure(pressureArguments[1], pressureArguments[2],
                                     pressure, isExploded)} :
     \E next \in {WaterInteractionPass(
                    [ nextMoleculeForces |-> walls.nextMoleculeForces,
                      nextMoleculeTorques |-> walls.nextMoleculeTorques ],
                    moved.moleculeCenterOfMassPositions, atoms, 0, 1, safeAfter,
                    q0(temperatureSetPoint),
                    repulsiveForceScalingFactor(temperatureSetPoint))} :
     \E updated \in {WaterVelocitiesAndTemperature(moleculeDataSet, next, timeStep)} :
       /\ moleculeDataSet' =
            [moleculeDataSet EXCEPT
               !.moleculeCenterOfMassPositions = moved.moleculeCenterOfMassPositions,
               !.moleculeRotationAngles = moved.moleculeRotationAngles,
               !.atomPositions = atoms,
               !.numberOfSafeMolecules = safeAfter,
               !.moleculeVelocities = updated.moleculeVelocities,
               !.moleculeRotationRates = updated.moleculeRotationRates,
               !.moleculeForces = next.nextMoleculeForces,
               !.nextMoleculeForces = next.nextMoleculeForces,
               !.moleculeTorques = next.nextMoleculeTorques,
               !.nextMoleculeTorques = next.nextMoleculeTorques]
       /\ pressure' = pressed.pressure
       /\ isExploded' = setContainerExploded(isExploded, pressed.setContainerExploded)
       /\ temperature' = updated.temperature
       /\ lastCall' = [ op |-> "updateForcesAndMotion",
                        dt |-> timeStep,
                        updatePressure |-> pressureArguments,
                        pressureAtEntry |-> pressure,
                        explodedAtEntry |-> isExploded,
                        setContainerExploded |-> pressed.setContainerExploded,
                        dataSetAtEntry |-> moleculeDataSet,
                        dataSetAtPressureUpdate |->
                          [moleculeDataSet EXCEPT
                             !.moleculeCenterOfMassPositions =
                                moved.moleculeCenterOfMassPositions,
                             !.moleculeRotationAngles = moved.moleculeRotationAngles,
                             !.atomPositions = atoms,
                             !.nextMoleculeForces = walls.nextMoleculeForces,
                             !.nextMoleculeTorques = walls.nextMoleculeTorques],
                        setPointAtEntry |-> temperatureSetPoint,
                        normalCharges |-> normalCharges(q0(temperatureSetPoint)),
                        alteredCharges |-> alteredCharges(q0(temperatureSetPoint)),
                        repulsiveForceScalingFactor |->
                          repulsiveForceScalingFactor(temperatureSetPoint),
                        forcesBeforePass |-> walls.nextMoleculeForces,
                        torquesBeforePass |-> walls.nextMoleculeTorques,
                        centers |-> moved.moleculeCenterOfMassPositions,
                        atoms |-> atoms,
                        pairForces |->
                          [p \in {pr \in (0 .. (safeAfter - 1)) \X (0 .. (safeAfter - 1)) :
                                    pr[1] < pr[2]} |->
                             PairForces(moved.moleculeCenterOfMassPositions, atoms, p[1], p[2],
                                        q0(temperatureSetPoint),
                                        repulsiveForceScalingFactor(temperatureSetPoint))],
                        coulombTerms |->
                          CoulombTerms(moved.moleculeCenterOfMassPositions, atoms, safeAfter,
                                       q0(temperatureSetPoint)) ]
  /\ steps' = 1
  /\ UNCHANGED <<normalizedContainerHeight, normalizedLidVelocityY,
                 lidChangedParticleVelocity, temperatureSetPoint>>

\* MultipleParticleModel.setTemperature
SetTemperature(setPoint) ==
  /\ temperatureSetPoint' = setPoint
  /\ UNCHANGED <<moleculeDataSet, pressure, isExploded, normalizedContainerHeight,
                 normalizedLidVelocityY, lidChangedParticleVelocity, temperature,
                 lastCall, steps>>

NextWater ==
  \/ \E timeStep \in TimeSteps, wallPattern \in 0 .. (Len(WallForceValues) - 1),
        safeAfter \in 0 .. NumMolecules :
       WaterStep(timeStep, wallPattern, safeAfter)
  \/ \E timeStep \in TimeSteps : WaterStepThrows(timeStep)
  \/ \E setPoint \in WaterSetPoints : SetTemperature(setPoint)

SpecWater == InitWater /\ [][NextWater]_vars

----------------------------------------------------------------------------
(* Both integrators: steps of AbstractVerletAlgorithm on the diatomic data  *)
(* set of the owning model, steps of WaterVerletAlgorithm on the water data *)
(* set                                                                      *)

InitIntegrators == Init \/ InitWater

NextIntegrators ==
  \/ \E timeStep \in TimeSteps, interaction \in Interactions :
       /\ "atomsPerMolecule" \in DOMAIN moleculeDataSet
       /\ Step(timeStep, interaction)
  \/ \E timeStep \in TimeSteps, wallPattern \in 0 .. (Len(WallForceValues) - 1),
        safeAfter \in 0 .. NumMolecules :
       /\ "numberOfSafeMolecules" \in DOMAIN moleculeDataSet
       /\ WaterStep(timeStep, wallPattern, safeAfter)
  \/ \E timeStep \in TimeSteps :
       /\ "numberOfSafeMolecules" \in DOMAIN moleculeDataSet
       /\ WaterStepThrows(timeStep)

SpecIntegrators == InitIntegrators /\ [][NextIntegrators]_vars

----------------------------------------------------------------------------
(* DiatomicPhaseStateChanger.setPhase                                      *)

\* StatesOfMatterConstants.LIQUID_TEMPERATURE
LIQUID_TEMPERATURE == Rat(34, 100)

\* StatesOfMatterConstants.GAS_TEMPERATURE
GAS_TEMPERATURE == Num(1)

LIQUID_SPACING_FACTOR == Rat(7, 10)

\* postChangeModelSteps of the LIQUID case
LIQUID_POST_CHANGE_MODEL_STEPS == 20

\* PhaseStateEnum, and a value that is none of its phases
PhaseStates == {"SOLID", "LIQUID", "GAS"}

PhaseStateValues == PhaseStates \cup {"UNKNOWN"}

\* the random rotation angles of this.rand
RandomAngles == <<Zero, Num(1), Num(3)>>

\* AbstractPhaseStateChanger.setPhaseLiquidMultiAtom: the molecules are put in rows
\* from the bottom of the container, the spacing of the solid shrunk by
\* spacingFactor, with random velocities and random rotation angles
setPhaseLiquidMultiAtom(ds, minInitialDiameterDistance, spacingFactor, seed) ==
  LET molecules == DOMAIN ds.moleculeCenterOfMassPositions
      n == Cardinality(molecules)
      spacing == Mul(minInitialDiameterDistance, spacingFactor)
      perLayer == 4
      rnd == Gaussian(seed, n)
  IN  [ds EXCEPT
         !.moleculeCenterOfMassPositions =
            [m \in molecules |->
               Vec(Add(Num(2), Mul(Num(m % perLayer), spacing)),
                   Add(Num(2), Mul(Num(m \div perLayer), spacing)))],
         !.moleculeRotationAngles =
            [m \in molecules |-> RandomAngles[((seed + m) % 3) + 1]],
         !.moleculeVelocities = [m \in molecules |-> rnd[m]],
         !.insideContainer = [m \in molecules |-> TRUE]]

\* AbstractPhaseStateChanger.setPhaseGas: the molecules are spread over the
\* container, with random velocities and random rotation angles
setPhaseGas(ds, seed) ==
  LET molecules == DOMAIN ds.moleculeCenterOfMassPositions
      n == Cardinality(molecules)
      rnd == Gaussian(seed, n)
  IN  [ds EXCEPT
         !.moleculeCenterOfMassPositions =
            [m \in molecules |-> Vec(Num(1 + m), Num(1 + ((2 * m + seed) % 6)))],
         !.moleculeRotationAngles =
            [m \in molecules |-> RandomAngles[((2 * seed + m) % 3) + 1]],
         !.moleculeVelocities = [m \in molecules |-> rnd[(m + 1) % n]],
         !.insideContainer = [m \in molecules |-> TRUE]]

\* setPhaseSolid throws when an index ( i * moleculesPerLayer ) + j is no index of
\* moleculeCenterOfMassPositions
setPhaseSolidThrows(numberOfMolecules) ==
  SolidPlacements(numberOfMolecules) # 0 .. (numberOfMolecules - 1)

\* StatesOfMatterConstants.NOMINAL_TIME_STEP
NOMINAL_TIME_STEP == Rat(1, 60)

\* multipleParticleModel.stepInternal( dt ) on the owning model in state model (its
\* data set, temperature set point, pressure, exploded state and the flag of the
\* integrator): the model delegates the step to updateForcesAndMotion( dt ) of the
\* integrator
stepInternal(model, dt, interaction) ==
  CHOOSE r \in {[model EXCEPT !.moleculeDataSet = done.moleculeDataSet,
                              !.pressure = done.pressure,
                              !.isExploded = done.isExploded,
                              !.lidChangedParticleVelocity =
                                 done.lidChangedParticleVelocity] :
                done \in {updateForcesAndMotion(model, dt, interaction)}} :
    TRUE

\* the loop that ends setPhase: postChangeModelSteps calls of
\* stepInternal( NOMINAL_TIME_STEP )
RECURSIVE PostChangeModelSteps(_, _, _)
PostChangeModelSteps(model, postChangeModelSteps, interaction) ==
  IF postChangeModelSteps = 0
  THEN model
  ELSE CHOOSE r \in {PostChangeModelSteps(stepped, postChangeModelSteps - 1, interaction) :
                     stepped \in {stepInternal(model, NOMINAL_TIME_STEP, interaction)}} :
         TRUE

\* Mutant of setPhase: the temperature is set before the phase state is looked at.
setPhase_setsTemperatureFirst(model, phaseState, seed, interaction) ==
  [ model |-> [model EXCEPT !.temperatureSetPoint = Num(SOLID_TEMPERATURE)],
    dataSetAtResync |-> model.moleculeDataSet,
    calls |-> <<>>, moleculesPlaced |-> 0, threw |-> TRUE ]

\* the default case of the switch
setPhaseInvalid(model, phaseState, seed, interaction) ==
  [ model |-> model,
    dataSetAtResync |-> model.moleculeDataSet,
    calls |-> <<>>, moleculesPlaced |-> 0, threw |-> TRUE ]

\* the LIQUID case, the resync and the model steps that follow it
setPhaseLiquidCase(model, phaseState, seed, interaction) ==
  LET result(resynced) ==
        [ model |-> PostChangeModelSteps(resynced, LIQUID_POST_CHANGE_MODEL_STEPS,
                                         interaction),
          dataSetAtResync |-> resynced.moleculeDataSet,
          calls |-> <<"setPhaseLiquid", "updateAtomPositions">>
                    \o [k \in 1 .. LIQUID_POST_CHANGE_MODEL_STEPS |-> "stepInternal"],
          moleculesPlaced |->
            Cardinality(DOMAIN model.moleculeDataSet.moleculeCenterOfMassPositions),
          threw |-> FALSE ]
  IN  CHOOSE r \in
        {result(resynced) :
           resynced \in
             {[model EXCEPT
                 !.moleculeDataSet =
                    DiatomicUpdateAtomPositions(
                      setPhaseLiquidMultiAtom(model.moleculeDataSet,
                                              Num(MIN_INITIAL_DIAMETER_DISTANCE),
                                              LIQUID_SPACING_FACTOR, seed)),
                 !.temperatureSetPoint = LIQUID_TEMPERATURE]}} :
        TRUE

\* setPhase( phaseState ) on the owning model in state model, the forces between
\* the molecules during the model steps being those of interaction: the state it
\* leaves, the data set as the resync left it, the calls it made in the order it
\* made them, the number of molecules it placed, and whether it threw
setPhase(model, phaseState, seed, interaction) ==
  LET ds == model.moleculeDataSet
      n == Cardinality(DOMAIN ds.moleculeCenterOfMassPositions)
  IN  CASE phaseState = "SOLID" ->
             LET placed == setPhaseSolid(ds, Gaussian(seed, n))
             IN  IF setPhaseSolidThrows(n)
                 THEN [ model |-> [model EXCEPT
                                     !.moleculeDataSet = placed,
                                     !.temperatureSetPoint = Num(SOLID_TEMPERATURE)],
                        dataSetAtResync |-> placed,
                        calls |-> <<"setPhaseSolid">>,
                        moleculesPlaced |-> Cardinality(SolidPlacements(n)),
                        threw |-> TRUE ]
                 ELSE [ model |-> [model EXCEPT
                                     !.moleculeDataSet = DiatomicUpdateAtomPositions(placed),
                                     !.temperatureSetPoint = Num(SOLID_TEMPERATURE)],
                        dataSetAtResync |-> DiatomicUpdateAtomPositions(placed),
                        calls |-> <<"setPhaseSolid", "updateAtomPositions">>,
                        moleculesPlaced |-> n,
                        threw |-> FALSE ]
        [] phaseState = "LIQUID" -> setPhaseLiquidCase(model, phaseState, seed, interaction)
        [] phaseState = "GAS" ->
             [ model |-> [model EXCEPT
                            !.moleculeDataSet =
                               DiatomicUpdateAtomPositions(setPhaseGas(ds, seed)),
                            !.temperatureSetPoint = GAS_TEMPERATURE],
               dataSetAtResync |-> DiatomicUpdateAtomPositions(setPhaseGas(ds, seed)),
               calls |-> <<"setPhaseGas", "updateAtomPositions">>,
               moleculesPlaced |-> n,
               threw |-> FALSE ]
        [] OTHER -> setPhaseInvalid(model, phaseState, seed, interaction)

InitPhase ==
  /\ \E n \in 1 .. MaxMolecules : moleculeDataSet = NewDiatomicDataSet(n)
  /\ pressure = Zero
  /\ isExploded = FALSE
  /\ normalizedContainerHeight = normalizedTotalContainerHeight
  /\ normalizedLidVelocityY = Zero
  /\ lidChangedParticleVelocity = FALSE
  /\ temperatureSetPoint = Num(SOLID_TEMPERATURE)
  /\ temperature = Zero
  /\ lastCall = [op |-> "new"]
  /\ steps = 0

\* one call of setPhase( phaseState ), the generator of the changer in state seed
SetPhase(phaseState, seed, interaction) ==
  /\ steps < MaxSteps
  /\ \E done \in {setPhase([ moleculeDataSet |-> moleculeDataSet,
                            temperatureSetPoint |-> temperatureSetPoint,
                            pressure |-> pressure,
                            isExploded |-> isExploded,
                            lidChangedParticleVelocity |-> lidChangedParticleVelocity ],
                          phaseState, seed, interaction)} :
       /\ moleculeDataSet' = done.model.moleculeDataSet
       /\ temperatureSetPoint' = done.model.temperatureSetPoint
       /\ pressure' = done.model.pressure
       /\ isExploded' = done.model.isExploded
       /\ lidChangedParticleVelocity' = done.model.lidChangedParticleVelocity
       /\ lastCall' = [ op |-> "setPhase",
                        phaseState |-> phaseState,
                        calls |-> done.calls,
                        moleculesPlaced |-> done.moleculesPlaced,
                        threw |-> done.threw,
                        dataSetAtEntry |-> moleculeDataSet,
                        setPointAtEntry |-> temperatureSetPoint,
                        dataSetAtResync |-> done.dataSetAtResync ]
  /\ steps' = steps + 1
  /\ UNCHANGED <<normalizedContainerHeight, normalizedLidVelocityY, temperature>>

\* setPhase is followed among the first MaxPhaseChanges operations of a behaviour
NextPhase ==
  \/ \E phaseState \in PhaseStateValues, seed \in {0}, interaction \in Interactions :
       steps < MaxPhaseChanges /\ SetPhase(phaseState, seed, interaction)
  \/ \E seed \in {0} : SetPhaseSolidDirectly(seed)

SpecPhase == InitPhase /\ [][NextPhase]_vars

----------------------------------------------------------------------------
(* The phase state changer and the integrator on one data set of           *)
(* MaxMolecules molecules, a solid to begin with: the integrator steps, the *)
(* container explodes, molecules leave it, and the phase is set again      *)

InitPhaseAndSteps ==
  /\ \E seed \in RandomSeeds :
       moleculeDataSet =
         DiatomicUpdateAtomPositions(setPhaseSolid(NewDiatomicDataSet(MaxMolecules),
                                                   Gaussian(seed, MaxMolecules)))
  /\ pressure = Zero
  /\ isExploded = FALSE
  /\ normalizedContainerHeight = normalizedTotalContainerHeight
  /\ normalizedLidVelocityY = Zero
  /\ lidChangedParticleVelocity = FALSE
  /\ temperatureSetPoint = Num(SOLID_TEMPERATURE)
  /\ temperature = Zero
  /\ lastCall = [op |-> "new"]
  /\ steps = 0

NextPhaseAndSteps ==
  \/ \E phaseState \in {"SOLID", "GAS"}, seed \in {0}, interaction \in Interactions :
       SetPhase(phaseState, seed, interaction)
  \/ \E timeStep \in TimeSteps, interaction \in Interactions : Step(timeStep, interaction)

SpecPhaseAndSteps == InitPhaseAndSteps /\ [][NextPhaseAndSteps]_vars

----------------------------------------------------------------------------
(* Properties of Spec: explosion and pressure                              *)

StepTaken == lastCall.op = "step"

\* C1: once isExploded is true, the only operation after which it is false again
\* is reset(): no integrator step, pressure update, setPhase call, lid move or
\* returnLid() clears it.
C1_OnlyResetClearsExploded ==
  [][(isExploded /\ ~isExploded') => lastCall'.op = "reset"]_vars

\* the lid of an exploded container was re-seated and the container is still
\* exploded
C1_Witness ==
  /\ lastCall.op = "returnLid"
  /\ lastCall.explodedAtEntry
  /\ isExploded
  /\ normalizedContainerHeight = normalizedTotalContainerHeight

\* C2: an updatePressure call on an intact container invokes
\* setContainerExploded(true) if and only if the newly computed pressure is
\* strictly greater than EXPLOSION_PRESSURE; a call on an exploded container
\* never invokes setContainerExploded.
C2_ExplosionSignalledIffOverThreshold ==
  StepTaken =>
    /\ lastCall.explodedAtEntry => lastCall.setContainerExploded = <<>>
    /\ ~lastCall.explodedAtEntry =>
         /\ lastCall.setContainerExploded \in {<<>>, <<TRUE>>}
         /\ lastCall.setContainerExploded = <<TRUE>> <=> Gt(pressure, EXPLOSION_PRESSURE)

\* a step on an intact container raised the pressure without reaching the threshold
C2_Witness ==
  /\ StepTaken
  /\ ~lastCall.explodedAtEntry
  /\ Gt(pressure, lastCall.pressureAtEntry)
  /\ Le(pressure, EXPLOSION_PRESSURE)
  /\ lastCall.setContainerExploded = <<>>

\* C3 as stated: at the end of every integrator step, isExploded implies
\* pressure = 0, also at the end of the step that signalled the explosion.
C3_ExplodedImpliesZeroPressure ==
  (StepTaken /\ isExploded) => pressure = Zero

\* C3, amended: at the end of every integrator step that began on an exploded
\* container the pressure is 0; at the end of the step that signalled the
\* explosion the pressure is still the value above EXPLOSION_PRESSURE that
\* triggered it.
C3_ZeroPressureFromNextStep ==
  StepTaken =>
    /\ lastCall.explodedAtEntry => pressure = Zero
    /\ lastCall.setContainerExploded = <<TRUE>> =>
         isExploded /\ Gt(pressure, EXPLOSION_PRESSURE)

\* a step on an exploded container took the pressure from above the threshold to 0
C3_Witness ==
  /\ StepTaken
  /\ lastCall.explodedAtEntry
  /\ Gt(lastCall.pressureAtEntry, EXPLOSION_PRESSURE)
  /\ pressure = Zero

\* C8: a step on a container that has not exploded never sets insideContainer to
\* false: every molecule that was inside before the step is inside after it.
C8_IntactStepKeepsMoleculesInside ==
  [][(lastCall'.op = "step" /\ ~isExploded) =>
       \A i \in Molecules :
         moleculeDataSet.insideContainer[i] => moleculeDataSet'.insideContainer[i]]_vars

\* a step on an intact container stopped a molecule at the lid, and all molecules
\* are inside
C8_Witness ==
  /\ StepTaken
  /\ ~lastCall.explodedAtEntry
  /\ \A i \in Molecules : moleculeDataSet.insideContainer[i]
  /\ \E i \in Molecules :
       moleculeDataSet.moleculeCenterOfMassPositions[i].y =
         Sub(lastCall.heightAtEntry, topBounceInset)

----------------------------------------------------------------------------
(* Properties of SpecMono: MonatomicAtomPositionUpdater                    *)

AtomPositionsUpdated == lastCall.op \in {"updateAtomPositions", "step"}

\* the call of updateAtomPositions that led to this state, made directly or by the
\* integrator in its step: the data set it was handed, the data set it left and
\* the offset it was given
PositionUpdate ==
  IF lastCall.op = "step"
  THEN [ entry |-> lastCall.dataSetAtPositionUpdate,
         exit |-> lastCall.dataSetAtPressureUpdate,
         offset |-> NaN ]
  ELSE [ entry |-> lastCall.dataSetAtPositionUpdate,
         exit |-> moleculeDataSet,
         offset |-> lastCall.offset ]

\* C5: in a call updateAtomPositions(dataSet, lidOffset) a molecule that is
\* outside becomes inside exactly when left <= x <= right and
\* bottom <= y <= top - lidOffset, the bounds being those of the container of the
\* model; a molecule that is inside becomes outside only when y > top + 2;
\* otherwise the status is unchanged.
C5_InclusiveBoundsAndFixedHysteresis ==
  AtomPositionsUpdated =>
    \A i \in Molecules :
      LET p == PositionUpdate.entry.moleculeCenterOfMassPositions[i]
          now == PositionUpdate.exit.insideContainers[i]
      IN  IF PositionUpdate.entry.insideContainers[i]
          THEN ~now => Gt(p.y, Add(normalizedTotalContainerHeight, Num(2)))
          ELSE now <=> /\ Le(Zero, p.x)
                       /\ Le(p.x, normalizedContainerWidth)
                       /\ Le(Zero, p.y)
                       /\ Le(p.y, Sub(normalizedTotalContainerHeight, PositionUpdate.offset))

\* C6: after updateAtomPositions(dataSet, lidOffset) every atom position is the
\* center-of-mass position clamped to left <= x <= right and
\* bottom <= y <= top - lidOffset, the bounds being those of the container of the
\* model.
C6_AtomClampedToContainer ==
  AtomPositionsUpdated =>
    \A i \in Molecules :
      LET p == PositionUpdate.entry.moleculeCenterOfMassPositions[i]
          a == PositionUpdate.exit.atomPositions[i]
      IN  /\ a.x = clamp(p.x, Zero, normalizedContainerWidth)
          /\ a.y = clamp(p.y, Zero,
                         Sub(normalizedTotalContainerHeight, PositionUpdate.offset))

----------------------------------------------------------------------------
(* Properties of SpecWater: WaterVerletAlgorithm.updateForcesAndMotion     *)

WaterStepTaken == lastCall.op = "updateForcesAndMotion"

SumOfForces(forces) ==
  Vec(SumOver([i \in Molecules |-> forces[i].x], 0, NumMolecules - 1),
      SumOver([i \in Molecules |-> forces[i].y], 0, NumMolecules - 1))

\* C4: a step of the water integrator on an intact container calls updatePressure
\* with the time step of that step, and replaces the pressure by
\* (dt/12) * impulseTerm + (1 - dt/12) * pressure_prev, with impulseTerm the wall
\* force accumulated in the step divided by (containerWidth + containerHeight).
C4_WaterStepSmoothsPressureWithItsTimeStep ==
  (WaterStepTaken /\ ~lastCall.explodedAtEntry) =>
    /\ lastCall.updatePressure[2] = lastCall.dt
    /\ pressure =
         Add(Mul(Div(lastCall.dt, Num(12)),
                 Div(lastCall.updatePressure[1],
                     Add(normalizedContainerWidth, normalizedContainerHeight))),
             Mul(Sub(Num(1), Div(lastCall.dt, Num(12))), lastCall.pressureAtEntry))

\* C9: the forces of the interaction pass cancel: the sum of nextMoleculeForces
\* over all molecules after the pass equals the sum of the wall and gravity
\* forces they held before the pass.
C9_InteractionForcesCancel ==
  WaterStepTaken =>
    SumOfForces(moleculeDataSet.nextMoleculeForces) = SumOfForces(lastCall.forcesBeforePass)

\* the pass applied Lennard-Jones and coulomb forces to a pair of molecules: their
\* forces changed and the coulomb forces left a torque
C9_Witness ==
  /\ WaterStepTaken
  /\ \E i, j \in Molecules :
       /\ i < j
       /\ moleculeDataSet.nextMoleculeForces[i] # lastCall.forcesBeforePass[i]
       /\ moleculeDataSet.nextMoleculeForces[j] # lastCall.forcesBeforePass[j]
       /\ moleculeDataSet.nextMoleculeTorques[i] # Zero

\* C10: the temperature recorded by a step is the kinetic energy
\* sum of 0.5 * mass * (vx^2 + vy^2) + 0.5 * rotationalInertia * rotationRate^2
\* over the molecules, with the velocities and rotation rates the step has just
\* written, divided by numberOfMolecules and by 1.5.
C10_TemperatureIsMeanKineticEnergy ==
  WaterStepTaken =>
    temperature =
      Div(Div(SumOver(
                [i \in Molecules |->
                   Add(Mul(Mul(Rat(1, 2), moleculeDataSet.moleculeMass),
                           Add(Sq(moleculeDataSet.moleculeVelocities[i].x),
                               Sq(moleculeDataSet.moleculeVelocities[i].y))),
                       Mul(Mul(Rat(1, 2), moleculeDataSet.moleculeRotationalInertia),
                           Sq(moleculeDataSet.moleculeRotationRates[i])))],
                0, NumMolecules - 1),
              Num(NumMolecules)),
          Rat(3, 2))

----------------------------------------------------------------------------
(* Properties of SpecPhase: DiatomicPhaseStateChanger.setPhase             *)

PhaseSet == lastCall.op = "setPhase"

\* C11: the phase temperatures are ordered SOLID_TEMPERATURE < LIQUID_TEMPERATURE
\* < GAS_TEMPERATURE, so the set point setPhase( SOLID ) leaves is below the one
\* of LIQUID, which is below the one of GAS.
C11_SetPointsOrderedByPhase ==
  /\ PhaseSet /\ lastCall.phaseState = "SOLID" =>
       /\ temperatureSetPoint = Num(SOLID_TEMPERATURE)
       /\ Lt(temperatureSetPoint, LIQUID_TEMPERATURE)
       /\ Lt(temperatureSetPoint, GAS_TEMPERATURE)
  /\ PhaseSet /\ lastCall.phaseState = "LIQUID" =>
       /\ temperatureSetPoint = LIQUID_TEMPERATURE
       /\ Gt(temperatureSetPoint, Num(SOLID_TEMPERATURE))
       /\ Lt(temperatureSetPoint, GAS_TEMPERATURE)
  /\ PhaseSet /\ lastCall.phaseState = "GAS" =>
       /\ temperatureSetPoint = GAS_TEMPERATURE
       /\ Gt(temperatureSetPoint, LIQUID_TEMPERATURE)
       /\ Gt(temperatureSetPoint, Num(SOLID_TEMPERATURE))

\* the calls setPhase( phaseState ) is to make, in order: the placement, the
\* resync of the atom positions, and the model steps of the phase
ExpectedCalls(phaseState) ==
  <<CASE phaseState = "SOLID" -> "setPhaseSolid"
      [] phaseState = "LIQUID" -> "setPhaseLiquid"
      [] OTHER -> "setPhaseGas",
    "updateAtomPositions">>
  \o [k \in 1 .. (IF phaseState = "LIQUID" THEN 20 ELSE 0) |-> "stepInternal"]

\* C12: setPhase( p ) performs, in this order, the placement of all molecules,
\* one resync of the atom positions, and exactly k calls of stepInternal, k = 20
\* for LIQUID and k = 0 for SOLID and GAS; no stepInternal comes before the
\* placement and the resync are complete.
C12_PlacementResyncThenSteps ==
  PhaseSet /\ lastCall.phaseState \in PhaseStates =>
    /\ lastCall.moleculesPlaced = Cardinality(DOMAIN moleculeDataSet.insideContainer)
    /\ lastCall.calls = ExpectedCalls(lastCall.phaseState)
    /\ moleculeDataSet.atomPositions.centers = moleculeDataSet.moleculeCenterOfMassPositions
    /\ moleculeDataSet.atomPositions.angles = moleculeDataSet.moleculeRotationAngles

\* The order of C12 for the calls of setPhase that return: every call that does
\* not throw has placed all molecules, then resynchronised, then stepped.
C12_OrderOfReturningCalls ==
  PhaseSet /\ ~lastCall.threw =>
    /\ lastCall.phaseState \in PhaseStates
    /\ lastCall.moleculesPlaced = Cardinality(DOMAIN moleculeDataSet.insideContainer)
    /\ lastCall.calls = ExpectedCalls(lastCall.phaseState)
    /\ lastCall.dataSetAtResync.atomPositions.centers =
         lastCall.dataSetAtResync.moleculeCenterOfMassPositions
    /\ lastCall.phaseState # "LIQUID" => moleculeDataSet = lastCall.dataSetAtResync
    /\ lastCall.phaseState = "LIQUID" =>
         moleculeDataSet.moleculeCenterOfMassPositions #
           lastCall.dataSetAtResync.moleculeCenterOfMassPositions
    /\ moleculeDataSet.atomPositions.centers = moleculeDataSet.moleculeCenterOfMassPositions

\* C13: setPhase with a value that is none of SOLID, LIQUID, GAS throws and leaves
\* everything as it was: the temperature set point and the positions, velocities,
\* rotation angles and insideContainer flags of the data set; it makes no resync
\* of the atom positions and no model step.
C13_InvalidPhaseThrowsAndChangesNothing ==
  PhaseSet /\ lastCall.phaseState \notin PhaseStates =>
    /\ lastCall.threw
    /\ lastCall.calls = <<>>
    /\ temperatureSetPoint = lastCall.setPointAtEntry
    /\ moleculeDataSet = lastCall.dataSetAtEntry

\* an invalid phase state handed to a changer whose data set has been placed as a
\* liquid or a gas before
C13_Witness ==
  /\ PhaseSet
  /\ lastCall.phaseState = "UNKNOWN"
  /\ lastCall.threw
  /\ lastCall.setPointAtEntry # Num(SOLID_TEMPERATURE)
  /\ \E m \in DOMAIN moleculeDataSet.moleculeVelocities :
       /\ moleculeDataSet.moleculeVelocities[m] # ZeroVec
       /\ moleculeDataSet.moleculeCenterOfMassPositions[m] # ZeroVec

\* square of the distance of two positions
SquaredDistance(a, b) == Add(Sq(Sub(a.x, b.x)), Sq(Sub(a.y, b.y)))

\* setPhase( SOLID ), or setPhaseSolid() itself, has just been called / has just
\* returned
SolidSet ==
  \/ PhaseSet /\ lastCall.phaseState = "SOLID"
  \/ lastCall.op = "setPhaseSolid"

\* C14: for every n >= 1, after setPhase( SOLID ) no two molecule centers
\* are closer than MIN_INITIAL_DIAMETER_DISTANCE = 2.0 (in particular none
\* coincide), adjacent rows included.
C14_CentersAtLeastMinimumDistanceApart ==
  SolidSet =>
    \A a, b \in DOMAIN moleculeDataSet.moleculeCenterOfMassPositions :
      a # b =>
        Ge(SquaredDistance(moleculeDataSet.moleculeCenterOfMassPositions[a],
                           moleculeDataSet.moleculeCenterOfMassPositions[b]),
           Sq(Num(MIN_INITIAL_DIAMETER_DISTANCE)))

----------------------------------------------------------------------------
(* Properties of Spec: the order of a step and the wall handling           *)

\* C15 as stated: within one step of either integrator the pressure update and
\* the explosion check run after the update of the velocities and rotation rates,
\* so the data set they run on has the positions, forces and velocities the step
\* ends with.
C15_PressureUpdatedAfterVelocities ==
  (StepTaken \/ WaterStepTaken) =>
    /\ lastCall.dataSetAtPressureUpdate.moleculeCenterOfMassPositions
         = moleculeDataSet.moleculeCenterOfMassPositions
    /\ lastCall.dataSetAtPressureUpdate.moleculeForces = moleculeDataSet.moleculeForces
    /\ lastCall.dataSetAtPressureUpdate.moleculeVelocities = moleculeDataSet.moleculeVelocities
    /\ lastCall.dataSetAtPressureUpdate.moleculeRotationRates
         = moleculeDataSet.moleculeRotationRates

\* C15, amended: in a step of either integrator the pressure update and the
\* explosion check run once the centers of mass, the rotation angles and the atom
\* positions of the step are written, and before the forces between the molecules
\* are computed and the velocities and rotation rates are updated.  The data set
\* they run on has the positions the step ends with, the forces, torques and
\* rotation rates the step began with, and velocities that the abstract integrator
\* has only reflected at the walls and the water integrator has not touched; the
\* water integrator has by then written the wall forces and gravity, and nothing
\* else, into the next forces.  The velocities the step ends with are computed
\* from that data set after the explosion flag may have changed.
C15_PressureUpdatedAfterPositionsBeforeVelocities ==
  (StepTaken \/ WaterStepTaken) =>
    LET seen == lastCall.dataSetAtPressureUpdate
        entry == lastCall.dataSetAtEntry
        timeStepHalf == Div(lastCall.dt, Num(2))
        massInverse == Inv(seen.moleculeMass)
    IN  /\ seen.moleculeCenterOfMassPositions = moleculeDataSet.moleculeCenterOfMassPositions
        /\ seen.moleculeRotationAngles = moleculeDataSet.moleculeRotationAngles
        /\ seen.atomPositions = moleculeDataSet.atomPositions
        /\ seen.moleculeForces = entry.moleculeForces
        /\ seen.moleculeTorques = entry.moleculeTorques
        /\ seen.moleculeRotationRates = entry.moleculeRotationRates
        /\ isExploded = setContainerExploded(lastCall.explodedAtEntry,
                                             lastCall.setContainerExploded)
        /\ \A i \in Molecules :
             /\ moleculeDataSet.moleculeVelocities[i].x
                  = Add(seen.moleculeVelocities[i].x,
                        Mul(Mul(timeStepHalf,
                                Add(seen.moleculeForces[i].x, moleculeDataSet.moleculeForces[i].x)),
                            massInverse))
             /\ moleculeDataSet.moleculeVelocities[i].y
                  = Add(seen.moleculeVelocities[i].y,
                        Mul(Mul(timeStepHalf,
                                Add(seen.moleculeForces[i].y, moleculeDataSet.moleculeForces[i].y)),
                            massInverse))
        /\ StepTaken =>
             /\ seen.insideContainer = moleculeDataSet.insideContainer
             /\ \A i \in Molecules : seen.moleculeVelocities[i] = lastCall.moved[i].velocity
        /\ WaterStepTaken =>
             /\ seen.moleculeVelocities = entry.moleculeVelocities
             /\ seen.nextMoleculeForces = lastCall.forcesBeforePass
             /\ seen.nextMoleculeTorques = lastCall.torquesBeforePass

\* a step that signalled the explosion while every velocity, and the forces, were
\* still to be updated
C15_Witness ==
  /\ StepTaken
  /\ lastCall.setContainerExploded = <<TRUE>>
  /\ lastCall.dataSetAtPressureUpdate.moleculeForces # moleculeDataSet.moleculeForces
  /\ \A i \in Molecules :
       lastCall.dataSetAtPressureUpdate.moleculeVelocities[i] # moleculeDataSet.moleculeVelocities[i]

\* the bounce lines of the side walls and the bottom
minX == sideBounceInset

maxX == Sub(normalizedContainerWidth, sideBounceInset)

minY == bottomBounceInset

\* C16: in updateMoleculePositions every inside molecule whose candidate position
\* lies beyond the left, right or bottom bounce line ends exactly on that line
\* with the velocity component negated, whatever the sign of that velocity; hence
\* every inside molecule has sideBounceInset <= x <= W - sideBounceInset and
\* y >= bottomBounceInset at the end of the update.
C16_BeyondBounceLineEndsOnLine ==
  StepTaken =>
    \A i \in Molecules :
      LET entry == lastCall.dataSetAtEntry
          candidate == lastCall.moved[i].candidate
          position == lastCall.moved[i].position
          velocity == lastCall.moved[i].velocity
      IN  /\ entry.insideContainer[i] /\ Lt(candidate.x, minX) =>
               position.x = minX /\ velocity.x = Neg(entry.moleculeVelocities[i].x)
          /\ entry.insideContainer[i] /\ Gt(candidate.x, maxX) =>
               position.x = maxX /\ velocity.x = Neg(entry.moleculeVelocities[i].x)
          /\ entry.insideContainer[i] /\ Lt(candidate.y, minY) =>
               position.y = minY /\ velocity.y = Neg(entry.moleculeVelocities[i].y)
          /\ moleculeDataSet.insideContainer[i] =>
               /\ Ge(moleculeDataSet.moleculeCenterOfMassPositions[i].x, minX)
               /\ Le(moleculeDataSet.moleculeCenterOfMassPositions[i].x, maxX)
               /\ Ge(moleculeDataSet.moleculeCenterOfMassPositions[i].y, minY)

\* molecule i got the wall handling in the last step: it was inside, or its
\* candidate position was in the container
WallHandled(i) ==
  \/ lastCall.dataSetAtEntry.insideContainer[i]
  \/ isNormalizedPositionInContainer(lastCall.moved[i].candidate.x, lastCall.moved[i].candidate.y)

\* the bounces of molecule i in the last step
LeftBounce(i) ==
  /\ WallHandled(i)
  /\ Le(lastCall.moved[i].candidate.x, minX)
  /\ Lt(lastCall.dataSetAtEntry.moleculeVelocities[i].x, Zero)

RightBounce(i) ==
  /\ WallHandled(i)
  /\ ~LeftBounce(i)
  /\ Ge(lastCall.moved[i].candidate.x, maxX)
  /\ Gt(lastCall.dataSetAtEntry.moleculeVelocities[i].x, Zero)

BottomBounce(i) ==
  /\ WallHandled(i)
  /\ Le(lastCall.moved[i].candidate.y, minY)
  /\ Le(lastCall.dataSetAtEntry.moleculeVelocities[i].y, Zero)

\* C17: every bounce off the left wall, the right wall or the bottom adds a
\* strictly positive amount, the magnitude of the reflected velocity component, to
\* the accumulated wall impulse, whatever the width and height of the container.
C17_EveryBounceAddsToWallImpulse ==
  StepTaken =>
    \A i \in Molecules :
      LET v == lastCall.dataSetAtEntry.moleculeVelocities[i]
          side == IF LeftBounce(i) \/ RightBounce(i) THEN Abs(v.x) ELSE Zero
          bottom == IF BottomBounce(i) THEN Abs(v.y) ELSE Zero
      IN  LeftBounce(i) \/ RightBounce(i) \/ BottomBounce(i) =>
            /\ Gt(lastCall.moved[i].accumulatedPressure, Zero)
            /\ Ge(lastCall.moved[i].accumulatedPressure, Add(side, bottom))

\* the molecule is inside (or has just come back inside) at the lid bounce line or
\* above it, moving up
LidBounce(i) ==
  /\ WallHandled(i)
  /\ ~lastCall.explodedAtEntry
  /\ Ge(lastCall.moved[i].candidate.y, Sub(lastCall.heightAtEntry, topBounceInset))
  /\ Gt(lastCall.dataSetAtEntry.moleculeVelocities[i].y, Zero)

\* what the side walls add to the wall impulse for molecule i
SideImpulse(i) ==
  IF (LeftBounce(i) \/ RightBounce(i))
     /\ Gt(lastCall.moved[i].position.x, Div(lastCall.heightAtEntry, Num(2)))
  THEN Abs(lastCall.dataSetAtEntry.moleculeVelocities[i].x)
  ELSE Zero

\* C18: in an intact container, an inside molecule whose candidate y is at least
\* containerHeight - topBounceInset and whose vy is positive ends with
\* y = containerHeight - topBounceInset and vy' = -vy + 0.3 * lidVelocity, and adds
\* |vy| to the wall impulse; with the lid at rest vy is exactly negated, and the lid
\* handling does not change vx.
C18_LidBounce ==
  StepTaken =>
    \A i \in Molecules :
      LidBounce(i) =>
        LET v == lastCall.dataSetAtEntry.moleculeVelocities[i]
            after == lastCall.moved[i]
        IN  /\ after.position.y = Sub(lastCall.heightAtEntry, topBounceInset)
            /\ after.velocity.y = Add(Neg(v.y), Mul(Rat(3, 10), lastCall.lidVelocityAtEntry))
            /\ lastCall.lidVelocityAtEntry = Zero => after.velocity.y = Neg(v.y)
            /\ after.accumulatedPressure = Add(SideImpulse(i), Abs(v.y))
            /\ after.velocity.x = IF LeftBounce(i) \/ RightBounce(i) THEN Neg(v.x) ELSE v.x
            /\ after.insideContainer
            /\ moleculeDataSet.moleculeCenterOfMassPositions[i] = after.position

\* a molecule bounced off a lid that was moving
C18_Witness ==
  /\ StepTaken
  /\ \E i \in Molecules :
       /\ LidBounce(i)
       /\ lastCall.dataSetAtEntry.insideContainer[i]
       /\ lastCall.lidVelocityAtEntry # Zero

\* C19: a molecule that is outside the container at the start of the position
\* update and whose candidate position is outside [0, W] x [0, totalHeight] gets
\* no wall handling: its position is the candidate, its velocity is unchanged, it
\* adds nothing to the wall impulse and it stays outside; it is inside again only
\* after a step in which its candidate position is in that box.
C19_OutsideMoleculeMovesFreely ==
  StepTaken =>
    \A i \in Molecules :
      ~lastCall.dataSetAtEntry.insideContainer[i] =>
        LET after == lastCall.moved[i]
            inBox == isNormalizedPositionInContainer(after.candidate.x, after.candidate.y)
        IN  /\ ~inBox =>
                 /\ after.position = after.candidate
                 /\ moleculeDataSet.moleculeCenterOfMassPositions[i] = after.candidate
                 /\ after.velocity = lastCall.dataSetAtEntry.moleculeVelocities[i]
                 /\ after.accumulatedPressure = Zero
                 /\ ~after.insideContainer
                 /\ ~moleculeDataSet.insideContainer[i]
            /\ moleculeDataSet.insideContainer[i] => inBox

\* two molecules had left the container: in one step the first moved on outside
\* the box without wall handling, and the second, whose candidate position was in
\* the box, was marked inside again
C19_Witness ==
  /\ StepTaken
  /\ \E i \in Molecules :
       /\ ~lastCall.dataSetAtEntry.insideContainer[i]
       /\ ~isNormalizedPositionInContainer(lastCall.moved[i].candidate.x,
                                           lastCall.moved[i].candidate.y)
       /\ ~moleculeDataSet.insideContainer[i]
       /\ lastCall.dataSetAtEntry.moleculeVelocities[i] # ZeroVec
  /\ \E i \in Molecules :
       /\ ~lastCall.dataSetAtEntry.insideContainer[i]
       /\ isNormalizedPositionInContainer(lastCall.moved[i].candidate.x,
                                          lastCall.moved[i].candidate.y)
       /\ moleculeDataSet.insideContainer[i]

----------------------------------------------------------------------------
(* Properties of SpecWater: the atoms of the coulomb terms                 *)

\* atom a is one of the two atoms of a coulomb term of the pair p of molecules
InCoulombTerm(p, a) ==
  \E t \in lastCall.coulombTerms[p] : t[1] = a \/ t[2] = a

\* C20: for every molecule m, of even or of odd index, exactly one of its two
\* hydrogens (slots 3m + 1 and 3m + 2) is left out of every coulomb pair term, and
\* its oxygen and its other hydrogen are in the coulomb terms of every interacting
\* pair that contains m.
C20_OneHydrogenOfEveryMoleculeExcluded ==
  WaterStepTaken =>
    \A p \in DOMAIN lastCall.coulombTerms :
      \A m \in {p[1], p[2]} :
        /\ InCoulombTerm(p, 3 * m)
        /\ InCoulombTerm(p, 3 * m + 1) # InCoulombTerm(p, 3 * m + 2)

\* C20, amended: the hydrogen left out is slot 3m + 2 of the molecules of odd index
\* only.  In every interacting pair, a molecule of odd index has its oxygen and its
\* hydrogen 3m + 1 in the coulomb terms and its hydrogen 3m + 2 in none; a molecule
\* of even index has all its three atoms in them; and the terms are all the pairs
\* of atoms of the two molecules that are not left out.
C20_SecondHydrogenOfOddMoleculesExcluded ==
  WaterStepTaken =>
    \A p \in DOMAIN lastCall.coulombTerms :
      /\ \A m \in {p[1], p[2]} :
           /\ InCoulombTerm(p, 3 * m)
           /\ InCoulombTerm(p, 3 * m + 1)
           /\ InCoulombTerm(p, 3 * m + 2) = (m % 2 = 0)
      /\ lastCall.coulombTerms[p]
           = { t \in (3 * p[1] .. 3 * p[1] + 2) \X (3 * p[2] .. 3 * p[2] + 2) :
                 /\ ~(t[1] % 3 = 2 /\ p[1] % 2 = 1)
                 /\ ~(t[2] % 3 = 2 /\ p[2] % 2 = 1) }

\* a step in which molecule 0 and molecule 1 interact
C20_Witness ==
  /\ WaterStepTaken
  /\ <<0, 1>> \in DOMAIN lastCall.coulombTerms
  /\ lastCall.coulombTerms[<<0, 1>>] # {}

----------------------------------------------------------------------------
(* Properties of SpecWater: rotation rates, distances, charges             *)

\* the maximum magnitude the design gives the rotation rate of a water molecule
MAX_ROTATION_RATE == Num(16)

\* C21: after every step of the water integrator the rotation rate of every
\* molecule has magnitude at most a fixed maximum, whatever torques were
\* accumulated in that step.
C21_RotationRateClamped ==
  WaterStepTaken =>
    \A i \in Molecules :
      Le(Abs(moleculeDataSet.moleculeRotationRates[i]), MAX_ROTATION_RATE)

----------------------------------------------------------------------------
(* Properties of SpecMonatomicVerlet                                       *)

\* C22: for a monatomic data set (moleculeRotationalInertia = 0) the rotation part
\* of updateMoleculePositions is a guarded no-op: no division by the zero inertia
\* is evaluated, and every molecule's rotation angle has the same defined value
\* after the step as before it.
C22_MonatomicRotationIsNoOp ==
  StepTaken /\ lastCall.dataSetAtEntry.moleculeRotationalInertia = Zero =>
    \A i \in Molecules :
      /\ IsFinite(moleculeDataSet.moleculeRotationAngles[i])
      /\ IsFinite(lastCall.dataSetAtEntry.moleculeRotationAngles[i]) =>
           moleculeDataSet.moleculeRotationAngles[i]
             = lastCall.dataSetAtEntry.moleculeRotationAngles[i]

\* C23: a pair of molecules whose squared center distance is >= 6.25 contributes
\* nothing to the force or torque of either molecule, neither Lennard-Jones nor
\* coulomb; for every closer pair each squared distance used as a divisor is
\* max(d^2, 0.90), so no division by zero occurs even when two centers or two
\* atoms coincide, and the Lennard-Jones force scalar at the floor is positive for
\* every repulsive scaling factor in [1, 3].
C23_CutoffAndDistanceFloor ==
  WaterStepTaken =>
    LET d2(p) == SquaredDistance(lastCall.centers[p[1]], lastCall.centers[p[2]])
        far(p) == Ge(d2(p), Rat(625, 100))
    IN  /\ \A p \in DOMAIN lastCall.pairForces :
             LET fs == lastCall.pairForces[p]
             IN  /\ far(p) => fs = <<>>
                 /\ ~far(p) =>
                      /\ Len(fs) >= 1
                      /\ fs[1].distanceSquared = Max(d2(p), Rat(9, 10))
                      /\ fs[1].distanceSquared = Rat(9, 10) => Gt(fs[1].forceScalar, Zero)
                      /\ \A k \in 2 .. Len(fs) :
                           fs[k].distanceSquared
                             = Max(SquaredDistance(lastCall.atoms[fs[k].atomIndex1],
                                                   lastCall.atoms[fs[k].atomIndex2]),
                                   Rat(9, 10))
                      /\ \A k \in 1 .. Len(fs) :
                           /\ IsFinite(fs[k].forceScalar)
                           /\ IsFinite(fs[k].force.x) /\ IsFinite(fs[k].force.y)
                           /\ IsFinite(fs[k].torque1) /\ IsFinite(fs[k].torque2)
        /\ \A m \in Molecules :
             (\A p \in DOMAIN lastCall.pairForces : m \in {p[1], p[2]} => far(p)) =>
               /\ moleculeDataSet.nextMoleculeForces[m] = lastCall.forcesBeforePass[m]
               /\ moleculeDataSet.nextMoleculeTorques[m] = lastCall.torquesBeforePass[m]

\* two molecules at the same place, with atoms at the same place: the floor is the
\* divisor of the Lennard-Jones term and of a coulomb term
C23_Witness ==
  /\ WaterStepTaken
  /\ \E p \in DOMAIN lastCall.pairForces :
       LET fs == lastCall.pairForces[p]
       IN  /\ lastCall.centers[p[1]] = lastCall.centers[p[2]]
           /\ Len(fs) > 1
           /\ fs[1].distanceSquared = Rat(9, 10)
           /\ \E k \in 2 .. Len(fs) :
                /\ lastCall.atoms[fs[k].atomIndex1] = lastCall.atoms[fs[k].atomIndex2]
                /\ fs[k].distanceSquared = Rat(9, 10)
           /\ \E k \in 2 .. Len(fs) : fs[k].force # ZeroVec

\* the value at setPoint on the line from frozen at 0.22 to melted at 0.3
C24_Interpolated(frozen, melted, setPoint) ==
  Add(frozen,
      Mul(Div(Sub(setPoint, Rat(22, 100)), Rat(8, 100)), Sub(melted, frozen)))

\* C24: the charge unit q0 and the repulsive scaling factor of a water step are
\* functions of the temperature set point alone: q0 = 4 and scaling = 3 below
\* 0.22; q0 = 1 and scaling = 1 above 0.3; the linear interpolation between
\* these values from 0.22 to 0.3, with the frozen values at exactly 0.22 and the
\* melted values at exactly 0.3; both are non-increasing in the set point, and
\* 1 <= q0 <= 4, 1 <= scaling <= 3.
C24_ChargeAndScalingFollowSetPoint ==
  WaterStepTaken =>
    LET T == lastCall.setPointAtEntry
        q == lastCall.normalCharges[1]
        scaling == lastCall.repulsiveForceScalingFactor
    IN  /\ lastCall.normalCharges[0] = Mul(Num(-2), q)
        /\ lastCall.normalCharges[2] = q
        /\ lastCall.alteredCharges[0] = Mul(Num(-2), q)
        /\ lastCall.alteredCharges[1] = Mul(Rat(167, 100), q)
        /\ lastCall.alteredCharges[2] = Mul(Rat(33, 100), q)
        /\ Lt(T, Rat(22, 100)) => q = Num(4) /\ scaling = Num(3)
        /\ Gt(T, Rat(3, 10)) => q = Num(1) /\ scaling = Num(1)
        /\ Ge(T, Rat(22, 100)) /\ Le(T, Rat(3, 10)) =>
             /\ q = C24_Interpolated(Num(4), Num(1), T)
             /\ scaling = C24_Interpolated(Num(3), Num(1), T)
        /\ T = Rat(22, 100) => q = Num(4) /\ scaling = Num(3)
        /\ T = Rat(3, 10) => q = Num(1) /\ scaling = Num(1)
        /\ Le(Num(1), q) /\ Le(q, Num(4))
        /\ Le(Num(1), scaling) /\ Le(scaling, Num(3))
        /\ \A lower \in WaterSetPoints :
             Le(lower, T) =>
               /\ Ge(q0(lower), q)
               /\ Ge(repulsiveForceScalingFactor(lower), scaling)

\* a step strictly inside the melting range: q0 = 2.5 and scaling = 2
C24_Witness ==
  /\ WaterStepTaken
  /\ lastCall.setPointAtEntry = Rat(26, 100)
  /\ lastCall.normalCharges[1] = Rat(5, 2)
  /\ lastCall.repulsiveForceScalingFactor = Num(2)
  /\ \E p \in DOMAIN lastCall.pairForces : lastCall.pairForces[p] # <<>>

----------------------------------------------------------------------------
(* Properties of SpecPhase: the rows of the solid                          *)

\* the molecules setPhaseSolid left at height y
SolidRow(y) ==
  {m \in DOMAIN moleculeDataSet.moleculeCenterOfMassPositions :
     moleculeDataSet.moleculeCenterOfMassPositions[m].y = y}

\* the heights of the rows, and the height of the last row
SolidRows ==
  {moleculeDataSet.moleculeCenterOfMassPositions[m].y :
     m \in DOMAIN moleculeDataSet.moleculeCenterOfMassPositions}

SolidLastRow == CHOOSE y \in SolidRows : \A z \in SolidRows : Le(z, y)

\* C25: for every molecule count n >= 1, setPhaseSolid places
\* ceil( sqrt( n ) ) molecules in every row except possibly the last one.
C25_CeilSqrtPerRow ==
  SolidSet =>
    LET n == Cardinality(DOMAIN moleculeDataSet.moleculeCenterOfMassPositions)
        ceilSqrt == CHOOSE r \in 1 .. n : r * r >= n /\ (r - 1) * (r - 1) < n
    IN  \A y \in SolidRows \ {SolidLastRow} : Cardinality(SolidRow(y)) = ceilSqrt

\* C26: after setPhase( SOLID ) every molecule 0 .. n - 1 is marked as being in
\* the container (insideContainer = true), also when some molecules were marked
\* outside before the call, for every n >= 1.
C26_SolidMarksEveryMoleculeInside ==
  SolidSet =>
    \A m \in DOMAIN moleculeDataSet.insideContainer : moleculeDataSet.insideContainer[m]

\* C28: for every molecule count n >= 1 setPhaseSolid terminates without error
\* and writes position, rotation angle 0 and velocity of each molecule index
\* 0 .. n - 1 exactly once: every moleculeIndex = i * moleculesPerLayer + j is an
\* integer in 0 .. n - 1 and no index is skipped or written twice, also when
\* moleculesPerLayer is a half-integer.
C28_SolidPlacesEveryIndexOnce ==
  SolidSet =>
    LET n == Cardinality(DOMAIN moleculeDataSet.moleculeCenterOfMassPositions)
        index(k) == SolidMoleculeIndex(n, SolidLoop(n, k).i, SolidLoop(n, k).j)
    IN  /\ ~lastCall.threw
        /\ lastCall.moleculesPlaced = n
        /\ \A k \in 0 .. (n - 1) : index(k)[2] = 1 /\ index(k)[1] \in 0 .. (n - 1)
        /\ \A k, l \in 0 .. (n - 1) : k # l => index(k) # index(l)
        /\ \A m \in DOMAIN moleculeDataSet.moleculeRotationAngles :
             moleculeDataSet.moleculeRotationAngles[m] = Zero

----------------------------------------------------------------------------
(* Properties of SpecLid: the lid flag and the top bounce line             *)

\* the lid handling of the last step assigned a y velocity to molecule i: the
\* molecule came up against the lid, or was slower than the lid
LidAssignsVelocity(i) ==
  /\ WallHandled(i)
  /\ ~lastCall.explodedAtEntry
  /\ ~BottomBounce(i)
  /\ Ge(lastCall.moved[i].candidate.y, Sub(lastCall.heightAtEntry, topBounceInset))
  /\ \/ Gt(lastCall.dataSetAtEntry.moleculeVelocities[i].y, Zero)
     \/ Lt(Abs(lastCall.dataSetAtEntry.moleculeVelocities[i].y),
           Abs(lastCall.lidVelocityAtEntry))

\* C27: lidChangedParticleVelocity is true only if in one of the steps since it
\* was last cleared the lid handling assigned a new y velocity to at least one
\* molecule while the lid velocity was non-zero; the integrator never resets the
\* flag to false.
C27_FlagOnlyAfterLidAssignedVelocity ==
  [][/\ lidChangedParticleVelocity => lidChangedParticleVelocity'
     /\ (~lidChangedParticleVelocity /\ lidChangedParticleVelocity') =>
          /\ lastCall'.op = "step"
          /\ lastCall'.lidVelocityAtEntry # Zero
          /\ \E i \in Molecules : LidAssignsVelocity(i)']_vars

\* C29: in an intact container, after updateMoleculePositions every molecule with
\* insideContainer = true has y <= containerHeight - topBounceInset, for every
\* container height in [0, initialHeight], including heights below 2, where the
\* top bounce line lies below the bottom bounce line and a downward-moving
\* molecule takes the bottom-bounce branch.
C29_InsideMoleculesNotAboveTopBounceLine ==
  StepTaken /\ ~lastCall.explodedAtEntry =>
    \A i \in Molecules :
      lastCall.moved[i].insideContainer =>
        Le(lastCall.moved[i].position.y, Sub(lastCall.heightAtEntry, topBounceInset))

----------------------------------------------------------------------------
(* Properties of Spec: the sign of the pressure                            *)

\* C30: starting from pressure 0, after any sequence of integrator steps with
\* 0 < dt <= 12, in an intact or an exploded container, the pressure is never
\* negative: the wall impulse a step accumulates is >= 0, and updatePressure forms
\* a convex combination of it with the previous pressure or sets the pressure to 0.
C30_PressureNeverNegative ==
  /\ Ge(pressure, Zero)
  /\ StepTaken =>
       LET weight == Div(lastCall.dt, Num(12))
           impulse == SumOver([i \in Molecules |-> lastCall.moved[i].accumulatedPressure],
                              0, NumMolecules - 1)
       IN  /\ Gt(lastCall.dt, Zero) /\ Le(lastCall.dt, Num(12))
           /\ \A i \in Molecules : Ge(lastCall.moved[i].accumulatedPressure, Zero)
           /\ lastCall.pressureZoneWallForce = Mul(impulse, Num(65))
           /\ Ge(lastCall.pressureZoneWallForce, Zero)
           /\ lastCall.explodedAtEntry => pressure = Zero
           /\ ~lastCall.explodedAtEntry =>
                pressure =
                  Add(Mul(weight,
                          Div(lastCall.pressureZoneWallForce,
                              Add(normalizedContainerWidth, lastCall.heightAtEntry))),
                      Mul(Sub(Num(1), weight), lastCall.pressureAtEntry))

\* a step in an intact container in which a molecule hit a wall, after a step that
\* left a positive pressure; and a step in an exploded container
C30_Witness ==
  /\ StepTaken
  /\ ~lastCall.explodedAtEntry
  /\ Gt(lastCall.pressureAtEntry, Zero)
  /\ Gt(lastCall.pressureZoneWallForce, Zero)
  /\ Gt(pressure, Zero)

====
